---- MODULE Spec2Model ----
(***************************************************************************)
(* Model of the shiftai Python SDK: the HttpClient transport               *)
(* (shiftai/http/http_client.py), its exception hierarchy                  *)
(* (shiftai/http/exceptions.py), the response models                       *)
(* (shiftai/models/__init__.py) and the resource facades (shiftai/api).    *)
(*                                                                         *)
(* A Python value is a record [t, s, kids]: t is its type tag, s its text  *)
(* as a sequence of tokens (the character 'Z' is always a token of its     *)
(* own), kids its entries [kt, k, v] (kt is the type of the key k).        *)
(***************************************************************************)
EXTENDS Integers, Sequences, FiniteSets, TLC

\* Longest JSON array the stub backend answers with.
MaxLen == 2
\* Network requests the stub backend counts before the clients stop calling.
MaxCalls == 2

----------------------------------------------------------------------------
(* Python values *)

Val(t, s, kids) == [t |-> t, s |-> s, kids |-> kids]
Entry(kt, k, v) == [kt |-> kt, k |-> k, v |-> v]

PyNone == Val("NoneType", <<>>, <<>>)
PyTrue == Val("bool", <<"true">>, <<>>)
PyInt1 == Val("int", <<"1">>, <<>>)
PyStr(s) == Val("str", s, <<>>)
PyDatetime(s) == Val("datetime", s, <<>>)
PyUUID(s) == Val("UUID", s, <<>>)
PyDict(kids) == Val("dict", <<>>, kids)
PyList(kids) == Val("list", <<>>, kids)
PyInstance(cls, kids) == Val(cls, <<>>, kids)

\* A list's entries from a sequence of values.
Items(seq) == [i \in 1..Len(seq) |-> Entry("index", "", seq[i])]

Keys(d) == {d.kids[i].k : i \in 1..Len(d.kids)}
HasKey(d, k) == \E i \in 1..Len(d.kids) : d.kids[i].k = k
\* d[k]: the value of the last entry with key k (a later keyword wins).
Lookup(d, k) == d.kids[CHOOSE i \in 1..Len(d.kids) : d.kids[i].k = k /\ \A j \in (i+1)..Len(d.kids) : d.kids[j].k # k].v

\* Python's truth value of an Optional[str]: None and '' are false.
Truthy(v) == ~(v = PyNone \/ (v.t = "str" /\ v.s = <<>>))

----------------------------------------------------------------------------
(* Exceptions: shiftai/http/exceptions.py *)

\* response_body = None
NoText == [raw |-> "None", doc |-> PyNone]

Exc(kind, status_code, message, response_body) == [kind |-> kind, status_code |-> status_code, message |-> message, response_body |-> response_body]

\* An exception that is no ApiException carries neither status nor body.
RawExc(kind, message) == Exc(kind, -1, message, NoText)
NoExc == RawExc("none", <<>>)

ApiException(status_code, message, response_body) == Exc("ApiException", status_code, message, response_body)
UnauthorizedException(message, response_body) == Exc("UnauthorizedException", 401, message, response_body)
BadRequestException(message, response_body) == Exc("BadRequestException", 400, message, response_body)
NotFoundException(message, response_body) == Exc("NotFoundException", 404, message, response_body)

ServerException_Through600(status_code, message, response_body) ==
    IF status_code < 500 \/ status_code > 600
    THEN RawExc("ValueError", <<"ServerException requires 5xx status code, got ", ToString(status_code)>>)
    ELSE Exc("ServerException", status_code, message, response_body)

ServerException(status_code, message, response_body) ==
    IF status_code < 500 \/ status_code >= 600
    THEN RawExc("ValueError", <<"ServerException requires 5xx status code, got ", ToString(status_code)>>)
    ELSE Exc("ServerException", status_code, message, response_body)

\* isinstance(e, ApiException): the class and its four subclasses.
TypedFailureKinds == {"ApiException", "UnauthorizedException", "BadRequestException", "NotFoundException", "ServerException"}
IsApiException(e) == e.kind \in TypedFailureKinds

\* str(e): ApiException.__str__ for the class and its subclasses, the message
\* for any other exception. 'if self.response_body': None and '' add nothing.
__str__(e) ==
    IF IsApiException(e)
    THEN <<"API error ", ToString(e.status_code), ": ">> \o e.message
         \o (IF e.response_body.raw \in {"None", ""} THEN <<>> ELSE <<"\nResponse: ", e.response_body.raw>>)
    ELSE e.message

\* What a piece of code ends with: a returned value or a raised exception.
Return(v) == [raised |-> NoExc, value |-> v]
Raise(e) == [raised |-> e, value |-> PyNone]

----------------------------------------------------------------------------
(* Response models: shiftai/models/__init__.py *)

PlatformMessageSubmissionResponse == [name |-> "PlatformMessageSubmissionResponse", dataclass |-> TRUE, init |-> "generated", fields |-> <<"success", "messageId", "conversationId", "message", "contextualPrompt", "humanQuery", "previousKConversations", "similarConversations", "operationStatus", "conversationTitle">>]

PlatformMessage == [name |-> "PlatformMessage", dataclass |-> TRUE, init |-> "kwargs", fields |-> <<"id", "message", "sender", "messageType", "platformUser", "agent", "user", "conversation", "replyToMessage", "projectName", "agentName", "mode", "timestamp", "intent", "entities", "annotations", "sourceEvent", "messageEmbedding", "generatedContext", "ragContext", "evalRecordId", "evalSyncStatus", "evalSyncError", "evalSyncTimestamp", "evalTotalTokens", "evalTotalCost", "likeFeedback", "dislikeFeedback", "feedbackText", "regeneration", "feedbackUpdatedAt">>]

\* A target that is no dataclass (Type[T] admits any class): the builtin dict.
BuiltinDict == [name |-> "dict", dataclass |-> FALSE, init |-> "dict", fields |-> <<>>]

User == [name |-> "User", dataclass |-> TRUE, init |-> "generated", fields |-> <<"userId", "username", "email", "projectName", "metadata">>]
Agent == [name |-> "Agent", dataclass |-> TRUE, init |-> "generated", fields |-> <<"id", "name", "platform", "version", "projectName", "metadata">>]
PlatformRegistrationResponse == [name |-> "PlatformRegistrationResponse", dataclass |-> TRUE, init |-> "generated", fields |-> <<"id", "tenantId", "projectName", "apiKey", "createdAt", "message">>]
FeedbackSubmissionResponse == [name |-> "FeedbackSubmissionResponse", dataclass |-> TRUE, init |-> "generated", fields |-> <<"success", "message", "botMessageId">>]
DashboardMetricsDTO == [name |-> "DashboardMetricsDTO", dataclass |-> TRUE, init |-> "generated", fields |-> <<"totalUsers", "totalAgents", "totalQueries", "totalResponses", "avgResponseTimeSeconds", "totalFeedback", "likes", "dislikes", "regenerates">>]
TopAgentDTO == [name |-> "TopAgentDTO", dataclass |-> TRUE, init |-> "generated", fields |-> <<"rank", "agentName", "agentId", "queryCount", "satisfactionPercentage">>]
TopUserDTO == [name |-> "TopUserDTO", dataclass |-> TRUE, init |-> "generated", fields |-> <<"rank", "username", "email", "userId", "queryCount", "avgResponseTimeSeconds">>]
UserAnalyticsDTO == [name |-> "UserAnalyticsDTO", dataclass |-> TRUE, init |-> "generated", fields |-> <<"username", "email", "userId", "queries", "responses", "avgResponseTimeSeconds", "likes", "dislikes", "regenerates">>]
ProjectAnalyticsResponseDTO == [name |-> "ProjectAnalyticsResponseDTO", dataclass |-> TRUE, init |-> "generated", fields |-> <<"totalUsers", "totalAgents", "totalQueries", "totalResponses", "avgResponseTimeSeconds", "totalFeedback", "likes", "dislikes", "regenerates", "topUserActivity", "topDevicesByUsage">>]
ConversationSummaryResponse == [name |-> "ConversationSummaryResponse", dataclass |-> TRUE, init |-> "generated", fields |-> <<"conversationId", "startedAt", "endedAt", "userId", "username", "agentId", "agentName", "conversationTitle">>]
ConversationMessageResponse == [name |-> "ConversationMessageResponse", dataclass |-> TRUE, init |-> "generated", fields |-> <<"id", "message", "timestamp", "sender", "messageType", "userId", "username", "agentId", "agentName", "intent", "entities", "annotations", "sourceEvent", "replyToMessageId", "generatedContext", "ragContext", "likeFeedback", "dislikeFeedback", "feedbackText", "regeneration", "feedbackUpdatedAt", "trulensSyncStatus", "trulensTotalTokens", "trulensTotalCost", "evalRecordId", "evalSyncStatus", "evalSyncError", "evalSyncTimestamp", "evalTotalTokens", "evalTotalCost", "conversationTitle">>]

\* Request models.
PlatformRegistrationRequest == [name |-> "PlatformRegistrationRequest", dataclass |-> TRUE, init |-> "generated", fields |-> <<"projectName", "metadata">>]
AgentData == [name |-> "AgentData", dataclass |-> TRUE, init |-> "generated", fields |-> <<"name", "platform", "version", "metadata">>]
PlatformMessageSubmissionRequest == [name |-> "PlatformMessageSubmissionRequest", dataclass |-> TRUE, init |-> "generated", fields |-> <<"username", "email", "metadata", "agentData", "senderType", "message", "intent", "entities", "annotations", "messageType", "sourceEvent", "ragContext", "replyMessageId", "mode">>]
CreateUserRequest == [name |-> "CreateUserRequest", dataclass |-> TRUE, init |-> "generated", fields |-> <<"username", "email", "metadata">>]
CreateAgentRequest == [name |-> "CreateAgentRequest", dataclass |-> TRUE, init |-> "generated", fields |-> <<"name", "platform", "version", "metadata">>]
FeedbackSubmissionRequest == [name |-> "FeedbackSubmissionRequest", dataclass |-> TRUE, init |-> "generated", fields |-> <<"messageId", "like", "dislike", "feedback", "regeneration">>]

\* Imported by analytics_api.py and platform_session_api.py from shiftai.models,
\* which does not define them: the fields are those their docstrings name.
FeedbackDTO == [name |-> "FeedbackDTO", dataclass |-> TRUE, init |-> "generated", fields |-> <<"feedbackId", "submittedAt">>]
EndConversationRequest == [name |-> "EndConversationRequest", dataclass |-> TRUE, init |-> "generated", fields |-> <<"conversationId">>]
EndConversationResponse == [name |-> "EndConversationResponse", dataclass |-> TRUE, init |-> "generated", fields |-> <<"success", "message", "startedAt", "endedAt">>]

\* The targets of a direct transport call.
ResponseTypes == {PlatformMessageSubmissionResponse, PlatformMessage, BuiltinDict}

FieldSet(cls) == {cls.fields[i] : i \in 1..Len(cls.fields)}

\* PlatformMessage.__init__: field_mapping.get(field_name, field_name)
FieldMapping(field_name) == IF field_name = "senderType" THEN "sender" ELSE field_name

\* The keyword arguments of a call, in the order written.
Kwargs(names, values) == PyDict([i \in 1..Len(names) |-> Entry("str", names[i], values[i])])

\* The generated __init__ of a dataclass whose fields all default to None.
DataclassInit(cls, kwargs) ==
    IF \E k \in Keys(kwargs) : k \notin FieldSet(cls)
    THEN Raise(RawExc("TypeError", <<"__init__() got an unexpected keyword argument">>))
    ELSE Return(PyInstance(cls.name, [i \in 1..Len(cls.fields) |-> Entry("str", cls.fields[i], IF HasKey(kwargs, cls.fields[i]) THEN Lookup(kwargs, cls.fields[i]) ELSE PyNone)]))

\* PlatformMessage.__init__(**kwargs): setattr for each keyword whose mapped
\* name is a field, in keyword order; the other fields keep the class default.
PlatformMessageInit(cls, kwargs) ==
    LET set(f) == {i \in 1..Len(kwargs.kids) : FieldMapping(kwargs.kids[i].k) = f}
        last(f) == CHOOSE i \in set(f) : \A j \in set(f) : j <= i
    IN  Return(PyInstance(cls.name, [i \in 1..Len(cls.fields) |-> Entry("str", cls.fields[i], IF set(cls.fields[i]) # {} THEN kwargs.kids[last(cls.fields[i])].v ELSE PyNone)]))

\* response_type(**data)
Construct(response_type, data) ==
    CASE response_type.init = "generated" -> DataclassInit(response_type, data)
      [] response_type.init = "kwargs" -> PlatformMessageInit(response_type, data)
      [] OTHER -> Return(PyDict(data.kids))

----------------------------------------------------------------------------
(* HttpClient helpers: shiftai/http/http_client.py *)

\* str.rstrip('/'): every trailing '/' goes.
RECURSIVE RStripSlash(_)
RStripSlash(s) == IF s # <<>> /\ s[Len(s)] = "/" THEN RStripSlash(SubSeq(s, 1, Len(s) - 1)) ELSE s

\* value.replace('Z', '+00:00'): every 'Z' of the string is replaced.
ReplaceZ(s) == [i \in 1..Len(s) |-> IF s[i] = "Z" THEN "+00:00" ELSE s[i]]

DateTokens == {"2024-01-15"}
TimeTokens == {"T10:30:00"}
OffsetTokens == {"+00:00"}

\* datetime.fromisoformat accepts a date, a date and a time, or both and an
\* offset; after a date alone it also takes '+00:00' as a separator and a time.
FromIsoformatOk(s) ==
    /\ Len(s) \in 1..3
    /\ s[1] \in DateTokens
    /\ Len(s) = 2 => s[2] \in TimeTokens \cup OffsetTokens
    /\ Len(s) = 3 => s[2] \in TimeTokens /\ s[3] \in OffsetTokens

\* The datetime fromisoformat builds, as <<date, time, tzinfo>>: the time is
\* midnight when none is given, and '2024-01-15+00:00' is the date, the
\* separator '+' and the time 00:00, with no tzinfo.
fromisoformat(s) ==
    IF Len(s) = 3 THEN <<s[1], s[2], s[3]>>
    ELSE IF Len(s) = 2 /\ s[2] \in TimeTokens THEN <<s[1], s[2], "naive">>
    ELSE <<s[1], "T00:00:00", "naive">>

RECURSIVE _deserialize_datetime(_)
_deserialize_datetime(value) ==
    IF value.t = "str"
    THEN IF FromIsoformatOk(ReplaceZ(value.s)) THEN PyDatetime(fromisoformat(ReplaceZ(value.s))) ELSE value
    ELSE IF value.t = "dict"
    THEN PyDict([i \in 1..Len(value.kids) |-> Entry(value.kids[i].kt, value.kids[i].k, _deserialize_datetime(value.kids[i].v))])
    ELSE IF value.t = "list"
    THEN PyList([i \in 1..Len(value.kids) |-> Entry(value.kids[i].kt, value.kids[i].k, _deserialize_datetime(value.kids[i].v))])
    ELSE value

_filter_known_fields_KeepAll(data, response_type) == data

_filter_known_fields(data, response_type) ==
    IF ~response_type.dataclass
    THEN data
    ELSE PyDict(SelectSeq(data.kids, LAMBDA e : e.k \in FieldSet(response_type)))

ensure_authenticated_NoneOnly(key) == IF key = PyNone THEN RawExc("ValueError", <<"This operation requires an API key.">>) ELSE NoExc

ensure_authenticated_Stripped(key) == IF ~Truthy(key) \/ \A i \in 1..Len(key.s) : key.s[i] = " " THEN RawExc("ValueError", <<"This operation requires an API key.">>) ELSE NoExc

\* HttpClient.ensure_authenticated: the exception it raises, NoExc when it returns.
ensure_authenticated(key) == IF ~Truthy(key) THEN RawExc("ValueError", <<"This operation requires an API key.">>) ELSE NoExc

IsSuccess(status_code) == 200 <= status_code /\ status_code <= 299

_handle_error_OffByOne(response) ==
    IF response.status_code = 401 THEN UnauthorizedException(<<"Unauthorized">>, response.text)
    ELSE IF response.status_code = 400 THEN BadRequestException(<<"Bad Request">>, response.text)
    ELSE IF response.status_code = 404 THEN NotFoundException(<<"Not Found">>, response.text)
    ELSE IF 500 < response.status_code /\ response.status_code < 600 THEN ServerException(response.status_code, <<"Server Error">>, response.text)
    ELSE ApiException(response.status_code, <<"API request failed with status ", ToString(response.status_code)>>, response.text)

_handle_error_DropBody(response) ==
    IF response.status_code = 401 THEN UnauthorizedException(<<"Unauthorized">>, response.text)
    ELSE IF response.status_code = 400 THEN BadRequestException(<<"Bad Request">>, response.text)
    ELSE IF response.status_code = 404 THEN NotFoundException(<<"Not Found">>, NoText)
    ELSE IF 500 <= response.status_code /\ response.status_code < 600 THEN ServerException(response.status_code, <<"Server Error">>, response.text)
    ELSE ApiException(response.status_code, <<"API request failed with status ", ToString(response.status_code)>>, response.text)

\* HttpClient._handle_error: the exception it raises (it never returns).
_handle_error(response) ==
    IF response.status_code = 401 THEN UnauthorizedException(<<"Unauthorized">>, response.text)
    ELSE IF response.status_code = 400 THEN BadRequestException(<<"Bad Request">>, response.text)
    ELSE IF response.status_code = 404 THEN NotFoundException(<<"Not Found">>, response.text)
    ELSE IF 500 <= response.status_code /\ response.status_code < 600 THEN ServerException(response.status_code, <<"Server Error">>, response.text)
    ELSE ApiException(response.status_code, <<"API request failed with status ", ToString(response.status_code)>>, response.text)

\* response.json(): the body parses to a document or json raises.
ResponseJson(response) ==
    IF response.text.raw = "json"
    THEN Return(response.text.doc)
    ELSE Raise(RawExc("JSONDecodeError", <<"Expecting value: line 1 column 1 (char 0)">>))

TypeName(v) == <<"<class '", v.t, "'>">>

----------------------------------------------------------------------------
(* Request bodies: dataclasses.asdict and json.dumps(..., default=str) *)

IsDataclassInstance(v) == v.t \in {"CreateUserRequest", "CreateAgentRequest", "PlatformRegistrationRequest", "PlatformMessageSubmissionRequest", "AgentData", "FeedbackSubmissionRequest", "EndConversationRequest"}

RECURSIVE AsDict(_)
AsDict(v) ==
    IF IsDataclassInstance(v) \/ v.t = "dict"
    THEN PyDict([i \in 1..Len(v.kids) |-> Entry(v.kids[i].kt, v.kids[i].k, AsDict(v.kids[i].v))])
    ELSE IF v.t = "list"
    THEN PyList([i \in 1..Len(v.kids) |-> Entry(v.kids[i].kt, v.kids[i].k, AsDict(v.kids[i].v))])
    ELSE v

JsonNative == {"NoneType", "bool", "int", "str", "dict", "list"}
JsonKeyTypes == {"str", "int", "float", "bool", "NoneType"}

\* json.dumps raises TypeError on a dict key that is no str, int, float, bool or None;
\* default= is consulted for values only.
RECURSIVE JsonEncodable(_)
JsonEncodable(v) ==
    IF v.t = "dict"
    THEN \A i \in 1..Len(v.kids) : v.kids[i].kt \in JsonKeyTypes /\ JsonEncodable(v.kids[i].v)
    ELSE IF v.t = "list"
    THEN \A i \in 1..Len(v.kids) : JsonEncodable(v.kids[i].v)
    ELSE TRUE

\* The document json.dumps writes: a value json does not know goes through str().
RECURSIVE JsonEncode(_)
JsonEncode(v) ==
    IF v.t \in {"dict", "list"}
    THEN Val(v.t, <<>>, [i \in 1..Len(v.kids) |-> Entry(v.kids[i].kt, v.kids[i].k, JsonEncode(v.kids[i].v))])
    ELSE IF v.t \in JsonNative THEN v
    ELSE PyStr(v.s)

JsonDumps(v) ==
    IF JsonEncodable(v)
    THEN [raised |-> NoExc, json_body |-> [raw |-> "json", doc |-> JsonEncode(v)]]
    ELSE [raised |-> RawExc("TypeError", <<"keys must be str, int, float, bool or None, not tuple">>), json_body |-> NoText]

\* "Serialize request body" of post, post_list, post_without_auth,
\* post_map_without_auth and post_map.
SerializeBody(request_body) ==
    IF request_body # PyNone
    THEN IF IsDataclassInstance(request_body)
         THEN JsonDumps(AsDict(request_body))
         ELSE JsonDumps(request_body)
    ELSE [raised |-> NoExc, json_body |-> NoText]

----------------------------------------------------------------------------
(* HttpClient operations: the code of each try block after the awaited      *)
(* response, as the value returned or the exception raised inside it.       *)

get_response(response, response_type) ==
    IF ~IsSuccess(response.status_code) THEN Raise(_handle_error(response))
    ELSE LET parsed == ResponseJson(response) IN
         IF parsed.raised # NoExc THEN parsed
         ELSE LET data == _deserialize_datetime(parsed.value) IN
              IF data.t = "dict"
              THEN Construct(response_type, _filter_known_fields(data, response_type))
              ELSE Return(data)

\* result.append(element_type(**filtered_item)) for each item: the first
\* constructor that raises ends the loop.
get_list_items(data, element_type) ==
    LET built == [i \in 1..Len(data.kids) |->
                    IF data.kids[i].v.t = "dict"
                    THEN Construct(element_type, _filter_known_fields(data.kids[i].v, element_type))
                    ELSE Return(data.kids[i].v)]
        failed == {i \in 1..Len(built) : built[i].raised # NoExc}
    IN  IF failed # {}
        THEN built[CHOOSE i \in failed : \A j \in failed : i <= j]
        ELSE Return(PyList([i \in 1..Len(built) |-> Entry("index", "", built[i].value)]))

get_list_response_NoListCheck(response, element_type) ==
    IF ~IsSuccess(response.status_code) THEN Raise(_handle_error(response))
    ELSE LET parsed == ResponseJson(response) IN
         IF parsed.raised # NoExc THEN parsed
         ELSE LET data == _deserialize_datetime(parsed.value) IN
              IF data.t # "list" THEN Return(PyList(<<>>))
              ELSE get_list_items(data, element_type)

get_list_response(response, element_type) ==
    IF ~IsSuccess(response.status_code) THEN Raise(_handle_error(response))
    ELSE LET parsed == ResponseJson(response) IN
         IF parsed.raised # NoExc THEN parsed
         ELSE LET data == _deserialize_datetime(parsed.value) IN
              IF data.t # "list"
              THEN Raise(ApiException(0, <<"Expected list, got ">> \o TypeName(data), NoText))
              ELSE get_list_items(data, element_type)

post_response_ObjectOnly(response, response_type) ==
    IF ~IsSuccess(response.status_code) THEN Raise(_handle_error(response))
    ELSE LET parsed == ResponseJson(response) IN
         IF parsed.raised # NoExc THEN parsed
         ELSE LET data == _deserialize_datetime(parsed.value) IN
              IF data.t = "dict"
              THEN Construct(response_type, data)
              ELSE Raise(ApiException(0, <<"Expected dict, got ">> \o TypeName(data), NoText))

post_response(response, response_type) ==
    IF ~IsSuccess(response.status_code) THEN Raise(_handle_error(response))
    ELSE LET parsed == ResponseJson(response) IN
         IF parsed.raised # NoExc THEN parsed
         ELSE LET data == _deserialize_datetime(parsed.value) IN
              IF data.t = "dict"
              THEN Construct(response_type, data)
              ELSE Return(data)

\* [element_type(**item) if isinstance(item, dict) else item for item in data]
post_list_items(data, element_type) ==
    LET built == [i \in 1..Len(data.kids) |->
                    IF data.kids[i].v.t = "dict"
                    THEN Construct(element_type, data.kids[i].v)
                    ELSE Return(data.kids[i].v)]
        failed == {i \in 1..Len(built) : built[i].raised # NoExc}
    IN  IF failed # {}
        THEN built[CHOOSE i \in failed : \A j \in failed : i <= j]
        ELSE Return(PyList([i \in 1..Len(built) |-> Entry("index", "", built[i].value)]))

post_list_response(response, element_type) ==
    IF ~IsSuccess(response.status_code) THEN Raise(_handle_error(response))
    ELSE LET parsed == ResponseJson(response) IN
         IF parsed.raised # NoExc THEN parsed
         ELSE LET data == _deserialize_datetime(parsed.value) IN
              IF data.t # "list"
              THEN Raise(ApiException(0, <<"Expected list, got ">> \o TypeName(data), NoText))
              ELSE post_list_items(data, element_type)

post_without_auth_response(response, response_type) ==
    IF ~IsSuccess(response.status_code) THEN Raise(_handle_error(response))
    ELSE LET parsed == ResponseJson(response) IN
         IF parsed.raised # NoExc THEN parsed
         ELSE LET data == _deserialize_datetime(parsed.value) IN
              IF data.t = "dict"
              THEN Construct(response_type, data)
              ELSE Return(data)

\* get_map_without_auth, post_map_without_auth and post_map: return response.json()
map_response(response) ==
    IF ~IsSuccess(response.status_code) THEN Raise(_handle_error(response))
    ELSE ResponseJson(response)

ExceptClauses_WrapAll(result) ==
    IF result.raised = NoExc THEN result
    ELSE Raise(ApiException(0, <<"IO error: ">> \o result.raised.message, NoText))

ExceptClauses_NoDetail(result) ==
    IF result.raised = NoExc \/ IsApiException(result.raised) THEN result
    ELSE Raise(ApiException(0, <<"IO error">>, NoText))

\* except (UnauthorizedException, ..., ApiException): raise
\* except Exception as e: raise ApiException(0, f"IO error: {str(e)}")
ExceptClauses(result) ==
    IF result.raised = NoExc THEN result
    ELSE IF IsApiException(result.raised) THEN result
    ELSE Raise(ApiException(0, <<"IO error: ">> \o result.raised.message, NoText))

----------------------------------------------------------------------------
(* Inputs: what the caller passes and what the backend answers *)

PlainString == <<"hello">>
TimestampString == <<"2024-01-15", "T10:30:00", "Z">>

BaseUrlInputs == {<<"http://localhost:8081">>, <<"http://localhost:8081", "/">>, <<"http://localhost:8081", "/", "/">>}
ApiKeyInputs == {PyNone, PyStr(<<>>), PyStr(<<"pk_test">>)}
Paths == {<<"/api/resource">>}

\* Object payloads: each key absent or present with one of the field values.
PayloadKeys == <<"message", "extra">>
FieldValues == {PyStr(PlainString), PyStr(TimestampString)}

RECURSIVE ObjectKids(_)
ObjectKids(keys) ==
    IF keys = <<>> THEN {<<>>}
    ELSE LET rest == ObjectKids(Tail(keys))
         IN  rest \cup {<<Entry("str", Head(keys), x)>> \o r : x \in FieldValues, r \in rest}

\* An ISO date with the UTC designator, as a date-only field is written.
DateZString == <<"2024-01-15", "Z">>

Scalars == {PyNone, PyTrue, PyInt1, PyStr(PlainString), PyStr(TimestampString), PyStr(DateZString)}
Objects == {PyDict(kids) : kids \in ObjectKids(PayloadKeys)}
Elements == Objects \cup {PyInt1}
Arrays == {PyList(Items(a)) : a \in UNION {[1..n -> Elements] : n \in 0..MaxLen}}

\* An object holding an object holding a list: strings three levels down.
NestedDocument ==
    PyDict(<<Entry("str", "message",
               PyDict(<<Entry("str", "extra", PyList(Items(<<PyStr(TimestampString), PyStr(PlainString), PyInt1, PyStr(<<"2024-01-15">>)>>))),
                        Entry("str", "message", PyStr(<<"2024-01-15", "T10:30:00">>))>>))>>)

\* What the backend answers to a message submission: the two identifiers
\* travel as JSON strings in canonical UUID form.
MessageIdText == <<"550e8400-e29b-41d4-a716-446655440000">>
ConversationIdText == <<"6ba7b810-9dad-11d1-80b4-00c04fd430c8">>
SubmissionPayload ==
    PyDict(<<Entry("str", "success", PyTrue),
             Entry("str", "messageId", PyStr(MessageIdText)),
             Entry("str", "conversationId", PyStr(ConversationIdText))>>)

Documents == Scalars \cup Objects \cup Arrays \cup {NestedDocument, SubmissionPayload}

JsonText(doc) == [raw |-> "json", doc |-> doc]
EmptyText == [raw |-> "", doc |-> PyNone]
HtmlText == [raw |-> "<html>", doc |-> PyNone]
ErrorTexts == {EmptyText, HtmlText, JsonText(PyDict(<<Entry("str", "message", PyStr(PlainString))>>))}

OtherStatuses == {199, 204, 299, 300, 400, 401, 403, 404, 499, 500, 503, 599, 600}
Responses ==
    {[status_code |-> 200, text |-> t] : t \in {JsonText(d) : d \in Documents} \cup {EmptyText, HtmlText}}
    \cup {[status_code |-> c, text |-> t] : c \in OtherStatuses, t \in ErrorTexts}

\* httpx.ConnectError, httpx.ReadTimeout (its str() is empty)
NetworkFaults == {RawExc("ConnectError", <<"All connection attempts failed">>), RawExc("ReadTimeout", <<>>)}

\* Request bodies of a direct transport call: none, a dict with a value json
\* does not know, a dict with a tuple key, a request dataclass, and one whose
\* metadata dict has a tuple key.
BadKeyDict == PyDict(<<Entry("tuple", "(1, 2)", PyStr(PlainString))>>)
RequestBodies ==
    {PyNone, PyDict(<<Entry("str", "conversationId", PyUUID(<<"uuid-1">>))>>), BadKeyDict}
    \cup {DataclassInit(CreateUserRequest, Kwargs(<<"username", "email", "metadata">>, <<PyStr(<<"alice">>), PyStr(<<"a@x.com">>), m>>)).value : m \in {PyNone, BadKeyDict}}

----------------------------------------------------------------------------
(* State *)

VARIABLES
    base_url,   \* HttpClient.base_url
    api_key,    \* HttpClient.api_key
    closed,     \* whether HttpClient.client (the httpx.AsyncClient) is closed
    netCalls,   \* requests the client has put on the network
    call,       \* the invocation of the task the event loop is running
    suspended,  \* the invocation of the other task, parked at its await
    torn,       \* whether the owner has let go of the client
    probe       \* the constructor arguments a property looks back at

vars == <<base_url, api_key, closed, netCalls, call, suspended, torn, probe>>

NoType == [name |-> "", dataclass |-> FALSE, init |-> "", fields |-> <<>>]
NoRequest == [verb |-> "", url |-> <<>>, headers |-> <<>>, content |-> NoText]
NoReply == [kind |-> "none", status_code |-> 0, text |-> NoText, fault |-> NoExc]
ResponseReply(r) == [kind |-> "response", status_code |-> r.status_code, text |-> r.text, fault |-> NoExc]
FaultReply(f) == [kind |-> "fault", status_code |-> 0, text |-> NoText, fault |-> f]

\* phase: idle, awaiting (suspended in the awaited network call) or done.
\* via: the facade method called, or "HttpClient" for a direct transport call.
\* request: the request put on the network, NoRequest if none was.
\* raised: the exception raised inside the operation, before its except clauses.
\* outcome, value, exc: how the invocation ended for the caller.
IdleCall == [phase |-> "idle", via |-> "", op |-> "", response_type |-> NoType, request_body |-> PyNone, request |-> NoRequest, reply |-> NoReply, raised |-> NoExc, outcome |-> "none", value |-> PyNone, exc |-> NoExc]

\* probe: nothing is looked back at.
NoProbe == [of |-> "", base_url |-> <<>>, status_code |-> 0, message |-> <<>>, response_body |-> NoText, result |-> NoExc, text |-> <<>>, args |-> <<>>]

\* The invocation c ended: result is what its code raised or returned and
\* final what left the operation.
Ended(c, reply, result, final) ==
    [c EXCEPT !.phase = "done", !.reply = reply, !.raised = result.raised,
              !.outcome = IF final.raised = NoExc THEN "return" ELSE "raise",
              !.value = final.value, !.exc = final.raised]

\* self.client = httpx.AsyncClient(headers={"Content-Type": "application/json"}):
\* the client's headers go on every request, before the call's own.
ClientHeaders == <<Entry("str", "Content-Type", PyStr(<<"application/json">>))>>

\* What self.client.get / self.client.post raises before anything is sent:
\* httpx rejects a header value that is no str (TypeError or AttributeError,
\* by version) when it builds the request, then refuses to send on a closed client.
SendFaults(headers) ==
    IF \E i \in 1..Len(headers) : headers[i].v.t # "str"
    THEN {RawExc("TypeError", <<"Header value must be str or bytes, not <class 'NoneType'>">>),
          RawExc("AttributeError", <<"'NoneType' object has no attribute 'encode'">>)}
    ELSE IF closed
    THEN {RawExc("RuntimeError", <<"Cannot send a request, as the client has been closed.">>)}
    ELSE {}

Invoke_SharedBody(via, op, verb, path, headers, serialized, request_body, response_type) ==
    LET c == [IdleCall EXCEPT !.via = via, !.op = op, !.response_type = response_type, !.request_body = request_body]
        json_body == IF suspended.phase = "awaiting" THEN suspended.request.content ELSE serialized.json_body
        request == [verb |-> verb, url |-> base_url \o path, headers |-> ClientHeaders \o headers, content |-> json_body]
    IN  /\ call.phase = "idle"
        /\ netCalls < MaxCalls
        /\ IF serialized.raised # NoExc
           THEN /\ call' = Ended(c, NoReply, Raise(serialized.raised), Raise(serialized.raised))
                /\ UNCHANGED netCalls
           ELSE IF SendFaults(headers) # {}
           THEN /\ \E f \in SendFaults(headers) : call' = Ended(c, NoReply, Raise(f), ExceptClauses(Raise(f)))
                /\ UNCHANGED netCalls
           ELSE /\ call' = [c EXCEPT !.phase = "awaiting", !.request = request]
                /\ netCalls' = netCalls + 1
        /\ UNCHANGED <<base_url, api_key, closed, suspended, torn, probe>>

\* One transport operation up to its awaited network call: the url and the
\* headers, the body serialized outside the try block, then the send.
Invoke(via, op, verb, path, headers, serialized, request_body, response_type) ==
    LET c == [IdleCall EXCEPT !.via = via, !.op = op, !.response_type = response_type, !.request_body = request_body]
        request == [verb |-> verb, url |-> base_url \o path, headers |-> ClientHeaders \o headers, content |-> serialized.json_body]
    IN  /\ call.phase = "idle"
        /\ netCalls < MaxCalls
        /\ IF serialized.raised # NoExc
           THEN /\ call' = Ended(c, NoReply, Raise(serialized.raised), Raise(serialized.raised))
                /\ UNCHANGED netCalls
           ELSE IF SendFaults(headers) # {}
           THEN /\ \E f \in SendFaults(headers) : call' = Ended(c, NoReply, Raise(f), ExceptClauses(Raise(f)))
                /\ UNCHANGED netCalls
           ELSE /\ call' = [c EXCEPT !.phase = "awaiting", !.request = request]
                /\ netCalls' = netCalls + 1
        /\ UNCHANGED <<base_url, api_key, closed, suspended, torn, probe>>

NoBody == [raised |-> NoExc, json_body |-> NoText]
ApiKeyHeader == <<Entry("str", "Api-Key", api_key)>>

get(via, path, response_type) == Invoke(via, "get", "GET", path, ApiKeyHeader, NoBody, PyNone, response_type)
get_list(via, path, element_type) == Invoke(via, "get_list", "GET", path, ApiKeyHeader, NoBody, PyNone, element_type)
post(via, path, request_body, response_type) == Invoke(via, "post", "POST", path, ApiKeyHeader, SerializeBody(request_body), request_body, response_type)
post_list(via, path, request_body, element_type) == Invoke(via, "post_list", "POST", path, ApiKeyHeader, SerializeBody(request_body), request_body, element_type)
post_without_auth_WithKey(via, path, request_body, response_type) == Invoke(via, "post_without_auth", "POST", path, ApiKeyHeader, SerializeBody(request_body), request_body, response_type)
post_without_auth(via, path, request_body, response_type) == Invoke(via, "post_without_auth", "POST", path, <<>>, SerializeBody(request_body), request_body, response_type)
get_map_without_auth(via, path) == Invoke(via, "get_map_without_auth", "GET", path, <<>>, NoBody, PyNone, NoType)
post_map_without_auth(via, path, request_body) == Invoke(via, "post_map_without_auth", "POST", path, <<>>, SerializeBody(request_body), request_body, NoType)
post_map(via, path, request_body) == Invoke(via, "post_map", "POST", path, ApiKeyHeader, SerializeBody(request_body), request_body, NoType)

\* The rest of the try block of the suspended operation, on its response.
OnResponse(c, response) ==
    CASE c.op = "get" -> get_response(response, c.response_type)
      [] c.op = "get_list" -> get_list_response(response, c.response_type)
      [] c.op = "post" -> post_response(response, c.response_type)
      [] c.op = "post_list" -> post_list_response(response, c.response_type)
      [] c.op = "post_without_auth" -> post_without_auth_response(response, c.response_type)
      [] OTHER -> map_response(response)

\* The awaited call ends with one of the responses or one of the faults, and
\* the operation runs to its end: no second request follows.
Deliver(responses, faults) ==
    /\ call.phase = "awaiting"
    /\ \/ \E r \in responses : call' = Ended(call, ResponseReply(r), OnResponse(call, r), ExceptClauses(OnResponse(call, r)))
       \/ \E f \in faults : call' = Ended(call, FaultReply(f), Raise(f), ExceptClauses(Raise(f)))
    /\ UNCHANGED <<base_url, api_key, closed, netCalls, suspended, torn, probe>>

NetworkReply_Retry ==
    \/ Deliver(Responses, {})
    \/ /\ call.phase = "awaiting"
       /\ netCalls <= MaxCalls
       /\ netCalls' = netCalls + 1
       /\ UNCHANGED <<base_url, api_key, closed, call, suspended, torn, probe>>

\* The awaited call ends: the backend's response arrives, or the network fails.
NetworkReply == Deliver(Responses, NetworkFaults)

\* The caller takes the outcome and is ready for its next call.
Resume ==
    /\ call.phase = "done"
    /\ call' = IdleCall
    /\ UNCHANGED <<base_url, api_key, closed, netCalls, suspended, torn, probe>>

\* HttpClient.close: await self.client.aclose()
close ==
    /\ call.phase = "idle"
    /\ closed' = TRUE
    /\ UNCHANGED <<base_url, api_key, netCalls, call, suspended, torn, probe>>

----------------------------------------------------------------------------
(* Resource facades: shiftai/api *)

\* str.strip() on a token sequence: the whitespace tokens at both ends go.
RECURSIVE Strip(_)
Strip(s) ==
    IF s # <<>> /\ s[1] = " " THEN Strip(Tail(s))
    ELSE IF s # <<>> /\ s[Len(s)] = " " THEN Strip(SubSeq(s, 1, Len(s) - 1))
    ELSE s

\* if not x or not x.strip(): raise ValueError(message)
RequiredString(x, message) == IF ~Truthy(x) \/ Strip(x.s) = <<>> THEN RawExc("ValueError", message) ELSE NoExc
\* if x is None: raise ValueError(message)
RequiredId(x, message) == IF x = PyNone THEN RawExc("ValueError", message) ELSE NoExc

\* The first check of a method that raises, NoExc if none does.
FirstFailure(checks) ==
    LET failed == {i \in 1..Len(checks) : checks[i] # NoExc}
    IN  IF failed = {} THEN NoExc ELSE checks[CHOOSE i \in failed : \A j \in failed : i <= j]

\* str(x) inside an f-string
Str(x) == IF x = PyNone THEN <<"None">> ELSE x.s

\* A facade method ends by raising e itself: nothing reaches the transport.
FacadeRaise(via, e) ==
    /\ call.phase = "idle"
    /\ netCalls < MaxCalls
    /\ call' = Ended([IdleCall EXCEPT !.via = via], NoReply, Raise(e), Raise(e))
    /\ UNCHANGED <<base_url, api_key, closed, netCalls, suspended, torn, probe>>

StringArgs == {PyNone, PyStr(<<>>), PyStr(<<" ">>), PyStr(<<"alice">>)}
IdArgs == {PyNone, PyUUID(<<"uuid-1">>)}

platform_register(project_name, metadata) ==
    LET failure == FirstFailure(<<RequiredString(project_name, <<"project_name is required">>)>>)
        request == DataclassInit(PlatformRegistrationRequest, Kwargs(<<"projectName", "metadata">>, <<project_name, metadata>>))
    IN  IF failure # NoExc THEN FacadeRaise("platform.register", failure)
        ELSE IF request.raised # NoExc THEN FacadeRaise("platform.register", request.raised)
        ELSE post_without_auth("platform.register", <<"/api/platform/register">>, request.value, PlatformRegistrationResponse)

users_create_ValidateFirst(username, email, metadata) ==
    LET failure == FirstFailure(<<RequiredString(username, <<"username is required">>), RequiredString(email, <<"email is required">>), ensure_authenticated(api_key)>>)
        request == DataclassInit(CreateUserRequest, Kwargs(<<"username", "email", "metadata">>, <<username, email, metadata>>))
    IN  IF failure # NoExc THEN FacadeRaise("users.create", failure)
        ELSE IF request.raised # NoExc THEN FacadeRaise("users.create", request.raised)
        ELSE post("users.create", <<"/api/users">>, request.value, User)

users_create(username, email, metadata) ==
    LET failure == FirstFailure(<<ensure_authenticated(api_key), RequiredString(username, <<"username is required">>), RequiredString(email, <<"email is required">>)>>)
        request == DataclassInit(CreateUserRequest, Kwargs(<<"username", "email", "metadata">>, <<username, email, metadata>>))
    IN  IF failure # NoExc THEN FacadeRaise("users.create", failure)
        ELSE IF request.raised # NoExc THEN FacadeRaise("users.create", request.raised)
        ELSE post("users.create", <<"/api/users">>, request.value, User)

agents_create(name, platform, version, metadata) ==
    LET failure == FirstFailure(<<ensure_authenticated(api_key), RequiredString(name, <<"name is required">>), RequiredString(platform, <<"platform is required">>)>>)
        request == DataclassInit(CreateAgentRequest, Kwargs(<<"name", "platform", "version", "metadata">>, <<name, platform, version, metadata>>))
    IN  IF failure # NoExc THEN FacadeRaise("agents.create", failure)
        ELSE IF request.raised # NoExc THEN FacadeRaise("agents.create", request.raised)
        ELSE post("agents.create", <<"/api/agents">>, request.value, Agent)

\* a: the arguments by name
messages_send_human_message(a) ==
    LET failure == FirstFailure(<<ensure_authenticated(api_key),
                                  RequiredString(a.username, <<"username is required">>), RequiredString(a.message, <<"message is required">>),
                                  RequiredString(a.agent_name, <<"agent_name is required">>), RequiredString(a.agent_platform, <<"agent_platform is required">>),
                                  RequiredString(a.agent_version, <<"agent_version is required">>), RequiredString(a.user_email, <<"user_email is required">>)>>)
        agent_data == DataclassInit(AgentData, Kwargs(<<"name", "platform", "version", "metadata">>, <<a.agent_name, a.agent_platform, a.agent_version, PyNone>>))
        request == DataclassInit(PlatformMessageSubmissionRequest,
                       Kwargs(<<"username", "email", "metadata", "message", "intent", "entities", "annotations", "sourceEvent", "agentData", "senderType", "messageType", "mode">>,
                              <<a.username, a.user_email, PyNone, a.message, PyNone, PyNone, PyNone, PyNone, agent_data.value, PyStr(<<"HUMAN">>), PyStr(<<"TEXT">>), PyNone>>))
    IN  IF failure # NoExc THEN FacadeRaise("messages.send_human_message", failure)
        ELSE IF request.raised # NoExc THEN FacadeRaise("messages.send_human_message", request.raised)
        ELSE post("messages.send_human_message", <<"/api/platform/messages/submit">>, request.value, PlatformMessageSubmissionResponse)

messages_send_bot_message_HumanTag(a) ==
    LET failure == FirstFailure(<<ensure_authenticated(api_key),
                                  RequiredString(a.username, <<"username is required">>), RequiredString(a.message, <<"message is required">>),
                                  RequiredString(a.agent_name, <<"agent_name is required">>), RequiredString(a.agent_platform, <<"agent_platform is required">>),
                                  RequiredId(a.reply_message_id, <<"reply_message_id is required for bot messages">>), RequiredString(a.rag_context, <<"rag_context is required for bot messages">>),
                                  RequiredString(a.agent_version, <<"agent_version is required">>), RequiredString(a.user_email, <<"user_email is required">>)>>)
        agent_data == DataclassInit(AgentData, Kwargs(<<"name", "platform", "version", "metadata">>, <<a.agent_name, a.agent_platform, a.agent_version, PyNone>>))
        request == DataclassInit(PlatformMessageSubmissionRequest,
                       Kwargs(<<"username", "email", "metadata", "message", "intent", "entities", "annotations", "sourceEvent", "agentData", "replyMessageId", "ragContext", "senderType", "messageType", "mode">>,
                              <<a.username, a.user_email, PyNone, a.message, PyNone, PyNone, PyNone, PyNone, agent_data.value, a.reply_message_id, a.rag_context, PyStr(<<"HUMAN">>), PyStr(<<"TEXT">>), PyNone>>))
    IN  IF failure # NoExc THEN FacadeRaise("messages.send_bot_message", failure)
        ELSE IF request.raised # NoExc THEN FacadeRaise("messages.send_bot_message", request.raised)
        ELSE post("messages.send_bot_message", <<"/api/platform/messages/submit">>, request.value, PlatformMessageSubmissionResponse)

messages_send_bot_message(a) ==
    LET failure == FirstFailure(<<ensure_authenticated(api_key),
                                  RequiredString(a.username, <<"username is required">>), RequiredString(a.message, <<"message is required">>),
                                  RequiredString(a.agent_name, <<"agent_name is required">>), RequiredString(a.agent_platform, <<"agent_platform is required">>),
                                  RequiredId(a.reply_message_id, <<"reply_message_id is required for bot messages">>), RequiredString(a.rag_context, <<"rag_context is required for bot messages">>),
                                  RequiredString(a.agent_version, <<"agent_version is required">>), RequiredString(a.user_email, <<"user_email is required">>)>>)
        agent_data == DataclassInit(AgentData, Kwargs(<<"name", "platform", "version", "metadata">>, <<a.agent_name, a.agent_platform, a.agent_version, PyNone>>))
        request == DataclassInit(PlatformMessageSubmissionRequest,
                       Kwargs(<<"username", "email", "metadata", "message", "intent", "entities", "annotations", "sourceEvent", "agentData", "replyMessageId", "ragContext", "senderType", "messageType", "mode">>,
                              <<a.username, a.user_email, PyNone, a.message, PyNone, PyNone, PyNone, PyNone, agent_data.value, a.reply_message_id, a.rag_context, PyStr(<<"BOT">>), PyStr(<<"TEXT">>), PyNone>>))
    IN  IF failure # NoExc THEN FacadeRaise("messages.send_bot_message", failure)
        ELSE IF request.raised # NoExc THEN FacadeRaise("messages.send_bot_message", request.raised)
        ELSE post("messages.send_bot_message", <<"/api/platform/messages/submit">>, request.value, PlatformMessageSubmissionResponse)

messages_submit(request) ==
    IF ensure_authenticated(api_key) # NoExc THEN FacadeRaise("messages.submit", ensure_authenticated(api_key))
    ELSE post("messages.submit", <<"/api/platform/messages/submit">>, request, PlatformMessageSubmissionResponse)

messages_get_all ==
    IF ensure_authenticated(api_key) # NoExc THEN FacadeRaise("messages.get_all", ensure_authenticated(api_key))
    ELSE get_list("messages.get_all", <<"/api/platform/messages">>, PlatformMessage)

messages_get_by_id(message_id) ==
    IF ensure_authenticated(api_key) # NoExc THEN FacadeRaise("messages.get_by_id", ensure_authenticated(api_key))
    ELSE get("messages.get_by_id", <<"/api/platform/messages/">> \o Str(message_id), PlatformMessage)

messages_get_by_agent(agent_id) ==
    IF ensure_authenticated(api_key) # NoExc THEN FacadeRaise("messages.get_by_agent", ensure_authenticated(api_key))
    ELSE get_list("messages.get_by_agent", <<"/api/platform/messages/agent/">> \o Str(agent_id), PlatformMessage)

analytics_submit_feedback(message_id, feedback_title, feedback) ==
    LET failure == FirstFailure(<<ensure_authenticated(api_key), RequiredId(message_id, <<"message_id is required">>),
                                  RequiredString(feedback_title, <<"feedback_title is required">>), RequiredString(feedback, <<"feedback is required">>)>>)
        request == DataclassInit(FeedbackSubmissionRequest,
                       Kwargs(<<"messageId", "feedbackTitle", "feedback", "liked", "disliked", "regeneration">>,
                              <<message_id, PyStr(Strip(feedback_title.s)), PyStr(Strip(feedback.s)), PyNone, PyNone, PyNone>>))
    IN  IF failure # NoExc THEN FacadeRaise("analytics.submit_feedback", failure)
        ELSE IF request.raised # NoExc THEN FacadeRaise("analytics.submit_feedback", request.raised)
        ELSE post("analytics.submit_feedback", <<"/api/analytics/data">>, request.value, FeedbackSubmissionResponse)

analytics_get_message_feedback(message_id) ==
    LET failure == FirstFailure(<<ensure_authenticated(api_key), RequiredId(message_id, <<"message_id is required">>)>>)
    IN  IF failure # NoExc THEN FacadeRaise("analytics.get_message_feedback", failure)
        ELSE get_list("analytics.get_message_feedback", <<"/api/analytics/messages/">> \o Str(message_id) \o <<"/feedback">>, FeedbackDTO)

analytics_get_dashboard ==
    IF ensure_authenticated(api_key) # NoExc THEN FacadeRaise("analytics.get_dashboard", ensure_authenticated(api_key))
    ELSE get("analytics.get_dashboard", <<"/api/analytics/dashboard">>, DashboardMetricsDTO)

analytics_get_top_agents(limit) ==
    IF ensure_authenticated(api_key) # NoExc THEN FacadeRaise("analytics.get_top_agents", ensure_authenticated(api_key))
    ELSE get_list("analytics.get_top_agents", <<"/api/analytics/top-agents?limit=">> \o Str(limit), TopAgentDTO)

analytics_get_top_users(limit) ==
    IF ensure_authenticated(api_key) # NoExc THEN FacadeRaise("analytics.get_top_users", ensure_authenticated(api_key))
    ELSE get_list("analytics.get_top_users", <<"/api/analytics/top-users?limit=">> \o Str(limit), TopUserDTO)

analytics_get_user_analytics ==
    IF ensure_authenticated(api_key) # NoExc THEN FacadeRaise("analytics.get_user_analytics", ensure_authenticated(api_key))
    ELSE get_list("analytics.get_user_analytics", <<"/api/analytics/user-analytics">>, UserAnalyticsDTO)

analytics_get_project_data(top_limit) ==
    IF ensure_authenticated(api_key) # NoExc THEN FacadeRaise("analytics.get_project_data", ensure_authenticated(api_key))
    ELSE get("analytics.get_project_data", <<"/api/analytics/project-data?topLimit=">> \o Str(top_limit), ProjectAnalyticsResponseDTO)

analytics_get_all(top_limit) == get_map_without_auth("analytics.get_all", <<"/api/analytics/all?topLimit=">> \o Str(top_limit))

analytics_initialize == post_map_without_auth("analytics.initialize", <<"/api/analytics/initialize">>, PyNone)

conversations_get_messages_by_conversation_id(conversation_id) ==
    LET failure == FirstFailure(<<ensure_authenticated(api_key), RequiredId(conversation_id, <<"conversation_id is required">>)>>)
    IN  IF failure # NoExc THEN FacadeRaise("conversations.get_messages_by_conversation_id", failure)
        ELSE post_list("conversations.get_messages_by_conversation_id", <<"/api/platform/conversation/getmessages">>,
                       PyDict(<<Entry("str", "conversationId", PyStr(Str(conversation_id)))>>), ConversationMessageResponse)

conversations_get_all_conversations ==
    IF ensure_authenticated(api_key) # NoExc THEN FacadeRaise("conversations.get_all_conversations", ensure_authenticated(api_key))
    ELSE get_list("conversations.get_all_conversations", <<"/api/platform/conversations/all">>, ConversationSummaryResponse)

conversations_get_user_conversations(username) ==
    LET failure == FirstFailure(<<ensure_authenticated(api_key), RequiredString(username, <<"username is required">>)>>)
    IN  IF failure # NoExc THEN FacadeRaise("conversations.get_user_conversations", failure)
        ELSE post_list("conversations.get_user_conversations", <<"/api/platform/conversations/user">>,
                       PyDict(<<Entry("str", "username", PyStr(Strip(username.s)))>>), ConversationSummaryResponse)

\* request or {}
platform_session_initiate_session(request) ==
    IF ensure_authenticated(api_key) # NoExc THEN FacadeRaise("platform_session.initiate_session", ensure_authenticated(api_key))
    ELSE post_map("platform_session.initiate_session", <<"/api/platformsession/initiate">>, IF request = PyNone \/ request = PyDict(<<>>) THEN PyDict(<<>>) ELSE request)

platform_session_end_conversation(conversation_id) ==
    LET failure == FirstFailure(<<ensure_authenticated(api_key), RequiredId(conversation_id, <<"conversation_id is required">>)>>)
        request == DataclassInit(EndConversationRequest, Kwargs(<<"conversationId">>, <<conversation_id>>))
    IN  IF failure # NoExc THEN FacadeRaise("platform_session.end_conversation", failure)
        ELSE IF request.raised # NoExc THEN FacadeRaise("platform_session.end_conversation", request.raised)
        ELSE post("platform_session.end_conversation", <<"/api/platformsession/endconversation">>, request.value, EndConversationResponse)

eval_generate_metrics_for_session(conversation_id) ==
    IF ensure_authenticated(api_key) # NoExc THEN FacadeRaise("eval.generate_metrics_for_session", ensure_authenticated(api_key))
    ELSE post_map("eval.generate_metrics_for_session", <<"/api/eval/sessions/">> \o Str(conversation_id) \o <<"/generate-metrics">>, PyDict(<<>>))

eval_generate_metrics_for_all_sessions ==
    IF ensure_authenticated(api_key) # NoExc THEN FacadeRaise("eval.generate_metrics_for_all_sessions", ensure_authenticated(api_key))
    ELSE post_map("eval.generate_metrics_for_all_sessions", <<"/api/eval/sessions/generate-metrics">>, PyDict(<<>>))

eval_generate_metrics_for_all_conversations == post_map_without_auth("eval.generate_metrics_for_all_conversations", <<"/api/eval/sessions/generate-metrics-all">>, PyDict(<<>>))

eval_get_batch_progress(job_id) == get_map_without_auth("eval.get_batch_progress", <<"/api/eval/sessions/generate-metrics-all/">> \o Str(job_id) \o <<"/progress">>)

\* HttpClient.__init__
Init ==
    /\ \E raw \in BaseUrlInputs : base_url = RStripSlash(raw)
    /\ api_key \in ApiKeyInputs
    /\ closed = FALSE
    /\ netCalls = 0
    /\ call = IdleCall
    /\ suspended = IdleCall
    /\ torn = FALSE
    /\ probe = NoProbe

HumanMessageArgs == [username : StringArgs, message : StringArgs, agent_name : StringArgs, agent_platform : StringArgs, agent_version : StringArgs, user_email : StringArgs]
BotMessageArgs == [username : StringArgs, message : StringArgs, agent_name : StringArgs, agent_platform : StringArgs, reply_message_id : IdArgs, rag_context : StringArgs, agent_version : StringArgs, user_email : StringArgs]
MetadataArgs == {PyNone, BadKeyDict}
Limits == {PyInt1}

\* The caller is between two calls (and the stub backend still counts).
Ready == call.phase = "idle" /\ netCalls < MaxCalls

\* A caller invokes a transport operation on the HttpClient itself.
DirectCall ==
    \/ Ready /\ \E p \in Paths, rt \in ResponseTypes : get("HttpClient", p, rt)
    \/ Ready /\ \E p \in Paths, rt \in ResponseTypes : get_list("HttpClient", p, rt)
    \/ Ready /\ \E p \in Paths, b \in RequestBodies, rt \in ResponseTypes : post("HttpClient", p, b, rt)
    \/ Ready /\ \E p \in Paths, b \in RequestBodies, rt \in ResponseTypes : post_list("HttpClient", p, b, rt)
    \/ Ready /\ \E p \in Paths, b \in RequestBodies, rt \in ResponseTypes : post_without_auth("HttpClient", p, b, rt)
    \/ Ready /\ \E p \in Paths : get_map_without_auth("HttpClient", p)
    \/ Ready /\ \E p \in Paths, b \in RequestBodies : post_map_without_auth("HttpClient", p, b)
    \/ Ready /\ \E p \in Paths, b \in RequestBodies : post_map("HttpClient", p, b)

\* A caller invokes a method of one of the resource facades.
FacadeCall ==
    \/ Ready /\ \E n \in StringArgs, m \in MetadataArgs : platform_register(n, m)
    \/ Ready /\ \E u \in StringArgs, e \in StringArgs, m \in MetadataArgs : users_create(u, e, m)
    \/ Ready /\ \E n \in StringArgs, pl \in StringArgs, v \in StringArgs, m \in MetadataArgs : agents_create(n, pl, v, m)
    \/ Ready /\ \E a \in HumanMessageArgs : messages_send_human_message(a)
    \/ Ready /\ \E a \in BotMessageArgs : messages_send_bot_message(a)
    \/ Ready /\ \E b \in RequestBodies : messages_submit(b)
    \/ Ready /\ messages_get_all
    \/ Ready /\ \E id \in IdArgs : messages_get_by_id(id)
    \/ Ready /\ \E id \in IdArgs : messages_get_by_agent(id)
    \/ Ready /\ \E id \in IdArgs, t \in StringArgs, f \in StringArgs : analytics_submit_feedback(id, t, f)
    \/ Ready /\ \E id \in IdArgs : analytics_get_message_feedback(id)
    \/ Ready /\ analytics_get_dashboard
    \/ Ready /\ \E n \in Limits : analytics_get_top_agents(n)
    \/ Ready /\ \E n \in Limits : analytics_get_top_users(n)
    \/ Ready /\ analytics_get_user_analytics
    \/ Ready /\ \E n \in Limits : analytics_get_project_data(n)
    \/ Ready /\ \E n \in Limits : analytics_get_all(n)
    \/ Ready /\ analytics_initialize
    \/ Ready /\ \E id \in IdArgs : conversations_get_messages_by_conversation_id(id)
    \/ Ready /\ conversations_get_all_conversations
    \/ Ready /\ \E u \in StringArgs : conversations_get_user_conversations(u)
    \/ Ready /\ \E r \in {PyNone, PyDict(<<>>), BadKeyDict} : platform_session_initiate_session(r)
    \/ Ready /\ \E id \in IdArgs : platform_session_end_conversation(id)
    \/ Ready /\ \E id \in IdArgs : eval_generate_metrics_for_session(id)
    \/ Ready /\ eval_generate_metrics_for_all_sessions
    \/ Ready /\ eval_generate_metrics_for_all_conversations
    \/ Ready /\ \E j \in StringArgs : eval_get_batch_progress(j)

Next ==
    \/ DirectCall
    \/ FacadeCall
    \/ NetworkReply
    \/ Resume
    \/ close

Spec == Init /\ [][Next]_vars

----------------------------------------------------------------------------
(* Two tasks on one HttpClient: asyncio runs one task at a time and changes *)
(* task only where the running one is parked at its await or has no call.   *)

ConcurrentResponses ==
    {[status_code |-> 200, text |-> JsonText(PyDict(<<Entry("str", "message", PyStr(PlainString))>>))],
     [status_code |-> 200, text |-> JsonText(PyList(<<>>))],
     [status_code |-> 200, text |-> EmptyText],
     [status_code |-> 404, text |-> EmptyText],
     [status_code |-> 503, text |-> HtmlText]}

\* The event loop runs the other task.
Switch ==
    /\ call.phase \in {"idle", "awaiting"}
    /\ call # suspended
    /\ call' = suspended
    /\ suspended' = call
    /\ UNCHANGED <<base_url, api_key, closed, netCalls, torn, probe>>

\* The running task's pending call is cancelled: CancelledError is no
\* Exception, so it passes both except clauses and nothing is kept.
Abandon ==
    /\ call.phase = "awaiting"
    /\ call' = IdleCall
    /\ UNCHANGED <<base_url, api_key, closed, netCalls, suspended, torn, probe>>

NextConcurrent ==
    \/ DirectCall
    \/ Deliver(ConcurrentResponses, NetworkFaults)
    \/ Resume
    \/ Switch
    \/ Abandon

SpecConcurrent == Init /\ [][NextConcurrent]_vars

----------------------------------------------------------------------------
(* Construction looked back at: probe keeps the base_url argument that      *)
(* HttpClient.__init__ was given, next to the base_url it stored.           *)

InitWithArguments ==
    /\ \E raw \in BaseUrlInputs :
          /\ base_url = RStripSlash(raw)
          /\ probe = [NoProbe EXCEPT !.of = "HttpClient.__init__", !.base_url = raw]
    /\ api_key \in ApiKeyInputs
    /\ closed = FALSE
    /\ netCalls = 0
    /\ call = IdleCall
    /\ suspended = IdleCall
    /\ torn = FALSE

NextAfterConstruction ==
    \/ DirectCall
    \/ Deliver(ConcurrentResponses, NetworkFaults)
    \/ Resume

SpecConstruction == InitWithArguments /\ [][NextAfterConstruction]_vars

----------------------------------------------------------------------------
(* Exceptions built by the caller's own code next to the transport's: probe *)
(* keeps the arguments of the last ServerException(...) call, what the call *)
(* produced and the str() of it.                                            *)

StatusInputs == {200, 499, 500, 503, 599, 600}
MessageInputs == {<<"Server Error">>, <<"Gateway down">>}
ResponseBodyInputs == {NoText, HtmlText}

ConstructServerException ==
    \E status_code \in StatusInputs, message \in MessageInputs, response_body \in ResponseBodyInputs :
        LET e == ServerException(status_code, message, response_body) IN
        /\ probe' = [NoProbe EXCEPT !.of = "ServerException", !.status_code = status_code, !.message = message,
                                    !.response_body = response_body, !.result = e, !.text = __str__(e)]
        /\ UNCHANGED <<base_url, api_key, closed, netCalls, call, suspended, torn>>

\* The backend answers around both ends of the 5xx range.
BoundaryResponses == {[status_code |-> c, text |-> t] : c \in StatusInputs, t \in {EmptyText, HtmlText}}

NextExceptions ==
    \/ DirectCall
    \/ Deliver(BoundaryResponses, NetworkFaults)
    \/ Resume
    \/ ConstructServerException

SpecExceptions == Init /\ [][NextExceptions]_vars

----------------------------------------------------------------------------
(* Failures printed by the caller: except Exception as e: print(f"... {e}") *)
(* takes the outcome of a call that raised and renders it; probe keeps the  *)
(* exception and its str().                                                 *)

PrintCaught ==
    /\ call.phase = "done"
    /\ call.outcome = "raise"
    /\ probe' = [NoProbe EXCEPT !.of = "str", !.result = call.exc, !.text = __str__(call.exc)]
    /\ call' = IdleCall
    /\ UNCHANGED <<base_url, api_key, closed, netCalls, suspended, torn>>

\* Every non-success answer of the backend, and one success.
DiagnosticResponses == {r \in Responses : ~IsSuccess(r.status_code)} \cup {[status_code |-> 200, text |-> JsonText(PyTrue)]}

NextDiagnostics ==
    \/ DirectCall
    \/ Deliver(DiagnosticResponses, NetworkFaults)
    \/ Resume
    \/ PrintCaught

SpecDiagnostics == Init /\ [][NextDiagnostics]_vars

----------------------------------------------------------------------------
(* Registration, then a second client: the first client has no credential; *)
(* when platform.register returned a response with an apiKey, the caller    *)
(* builds a new client with that key and goes on with it.                   *)

InitUnregistered ==
    /\ \E raw \in BaseUrlInputs : base_url = RStripSlash(raw)
    /\ api_key = PyNone
    /\ closed = FALSE
    /\ netCalls = 0
    /\ call = IdleCall
    /\ suspended = IdleCall
    /\ torn = FALSE
    /\ probe = NoProbe

RegistrationPayload ==
    PyDict(<<Entry("str", "apiKey", PyStr(<<"pk_live">>)),
             Entry("str", "projectName", PyStr(PlainString)),
             Entry("str", "tenantId", PyStr(<<"t-1">>))>>)

RegistrationResponses ==
    {[status_code |-> 200, text |-> JsonText(RegistrationPayload)],
     [status_code |-> 200, text |-> JsonText(PyDict(<<Entry("str", "message", PyStr(PlainString))>>))],
     [status_code |-> 200, text |-> JsonText(PyList(<<>>))],
     [status_code |-> 400, text |-> EmptyText],
     [status_code |-> 503, text |-> HtmlText]}

\* api_key = registration_response.apiKey; client = ShiftaiagenticinfraClient(base_url, api_key)
ClientWithReturnedKey ==
    /\ probe = NoProbe
    /\ call.phase = "done"
    /\ call.via = "platform.register"
    /\ call.outcome = "return"
    /\ call.value.t = "PlatformRegistrationResponse"
    /\ Lookup(call.value, "apiKey") # PyNone
    /\ api_key' = Lookup(call.value, "apiKey")
    /\ closed' = FALSE
    /\ call' = IdleCall
    /\ probe' = [NoProbe EXCEPT !.of = "ShiftaiagenticinfraClient.__init__"]
    /\ UNCHANGED <<base_url, netCalls, suspended, torn>>

NextRegistration ==
    \/ FacadeCall
    \/ Deliver(RegistrationResponses, NetworkFaults)
    \/ Resume
    \/ ClientWithReturnedKey

SpecRegistration == InitUnregistered /\ [][NextRegistration]_vars

----------------------------------------------------------------------------
(* Calls with their arguments kept: the caller evaluates the arguments of a *)
(* facade call, probe keeps them in the order the method checks them, and   *)
(* the call is made with exactly those.                                     *)

OrderArgs == {PyNone, PyStr(<<" ">>), PyStr(<<"alice">>)}
MissingOrGiven == {PyNone, PyStr(<<"alice">>)}

PreparedArguments ==
    [of : {"messages.send_human_message"},
     args : {<<u, m, n, pl, v, e>> : u \in OrderArgs, m \in OrderArgs, n \in OrderArgs, pl \in OrderArgs, v \in OrderArgs, e \in OrderArgs}]
    \cup [of : {"messages.send_bot_message"},
          args : {<<x[1], x[2], x[3], x[4], id, x[5], x[6], x[7]>> : x \in [1..7 -> MissingOrGiven], id \in IdArgs}]
    \cup [of : {"analytics.submit_feedback"}, args : {<<id, t, f>> : id \in IdArgs, t \in OrderArgs, f \in OrderArgs}]
    \cup [of : {"users.create"}, args : {<<u, e>> : u \in OrderArgs, e \in OrderArgs}]
    \cup [of : {"conversations.get_messages_by_conversation_id"}, args : {<<id>> : id \in IdArgs}]
    \cup [of : {"conversations.get_user_conversations"}, args : {<<u>> : u \in OrderArgs}]

PrepareArguments ==
    /\ call.phase = "idle"
    /\ probe = NoProbe
    /\ \E p \in PreparedArguments : probe' = [NoProbe EXCEPT !.of = p.of, !.args = p.args]
    /\ UNCHANGED <<base_url, api_key, closed, netCalls, call, suspended, torn>>

\* The call is over and its arguments are dropped.
ForgetArguments ==
    /\ call.phase = "idle"
    /\ probe # NoProbe
    /\ probe' = NoProbe
    /\ UNCHANGED <<base_url, api_key, closed, netCalls, call, suspended, torn>>

CallPrepared ==
    \/ Ready /\ probe.of = "messages.send_human_message"
             /\ messages_send_human_message([username |-> probe.args[1], message |-> probe.args[2], agent_name |-> probe.args[3],
                                             agent_platform |-> probe.args[4], agent_version |-> probe.args[5], user_email |-> probe.args[6]])
    \/ Ready /\ probe.of = "messages.send_bot_message"
             /\ messages_send_bot_message([username |-> probe.args[1], message |-> probe.args[2], agent_name |-> probe.args[3],
                                           agent_platform |-> probe.args[4], reply_message_id |-> probe.args[5], rag_context |-> probe.args[6],
                                           agent_version |-> probe.args[7], user_email |-> probe.args[8]])
    \/ Ready /\ probe.of = "analytics.submit_feedback" /\ analytics_submit_feedback(probe.args[1], probe.args[2], probe.args[3])
    \/ Ready /\ probe.of = "users.create" /\ users_create(probe.args[1], probe.args[2], PyNone)
    \/ Ready /\ probe.of = "conversations.get_messages_by_conversation_id" /\ conversations_get_messages_by_conversation_id(probe.args[1])
    \/ Ready /\ probe.of = "conversations.get_user_conversations" /\ conversations_get_user_conversations(probe.args[1])

NextValidationOrder ==
    \/ PrepareArguments
    \/ CallPrepared
    \/ Deliver(ConcurrentResponses, NetworkFaults)
    \/ Resume
    \/ ForgetArguments

SpecValidationOrder == Init /\ [][NextValidationOrder]_vars

----------------------------------------------------------------------------
(* The credential check called by itself, on clients built with each kind  *)
(* of credential; probe keeps what the check raised.                        *)

\* ShiftaiagenticinfraClient._ensure_api_key: if not self.api_key: raise ValueError(...)
_ensure_api_key(key) == IF ~Truthy(key) THEN RawExc("ValueError", <<"This operation requires an API key.">>) ELSE NoExc

CredentialInputs == ApiKeyInputs \cup {PyStr(<<" ">>)}

InitWithCredential ==
    /\ \E raw \in BaseUrlInputs : base_url = RStripSlash(raw)
    /\ api_key \in CredentialInputs
    /\ closed = FALSE
    /\ netCalls = 0
    /\ call = IdleCall
    /\ suspended = IdleCall
    /\ torn = FALSE
    /\ probe = NoProbe

CheckCredential ==
    /\ call.phase = "idle"
    /\ \/ probe' = [NoProbe EXCEPT !.of = "HttpClient.ensure_authenticated", !.result = ensure_authenticated(api_key)]
       \/ probe' = [NoProbe EXCEPT !.of = "ShiftaiagenticinfraClient._ensure_api_key", !.result = _ensure_api_key(api_key)]
    /\ UNCHANGED <<base_url, api_key, closed, netCalls, call, suspended, torn>>

\* Calls of authenticated facade methods, with and without required arguments.
AuthenticatedCall ==
    \/ Ready /\ \E u \in StringArgs, e \in StringArgs : users_create(u, e, PyNone)
    \/ Ready /\ messages_get_all
    \/ Ready /\ \E id \in IdArgs : analytics_get_message_feedback(id)
    \/ Ready /\ analytics_get_dashboard
    \/ Ready /\ \E u \in StringArgs : conversations_get_user_conversations(u)
    \/ Ready /\ \E id \in IdArgs : platform_session_end_conversation(id)

NextCredential ==
    \/ CheckCredential
    \/ AuthenticatedCall
    \/ Deliver(ConcurrentResponses, NetworkFaults)
    \/ Resume

SpecCredential == InitWithCredential /\ [][NextCredential]_vars

----------------------------------------------------------------------------
(* Messages fetched: the backend answers with message objects that carry    *)
(* the sender under senderType, under sender, or under both, next to a key  *)
(* PlatformMessage does not declare.                                        *)

MessageObjects ==
    {PyDict(<<Entry("str", "message", PyStr(PlainString)), Entry("str", "senderType", PyStr(<<"HUMAN">>))>>),
     PyDict(<<Entry("str", "message", PyStr(PlainString)), Entry("str", "senderType", PyStr(<<"BOT">>)), Entry("str", "extra", PyInt1)>>),
     PyDict(<<Entry("str", "message", PyStr(PlainString)), Entry("str", "sender", PyStr(<<"BOT">>))>>),
     PyDict(<<Entry("str", "sender", PyStr(<<"BOT">>)), Entry("str", "senderType", PyStr(<<"HUMAN">>))>>),
     PyDict(<<Entry("str", "extra", PyInt1)>>)}

MessageResponses ==
    {[status_code |-> 200, text |-> JsonText(o)] : o \in MessageObjects}
    \cup {[status_code |-> 200, text |-> JsonText(PyList(Items(<<a, b>>)))] : a \in MessageObjects, b \in MessageObjects}
    \cup {[status_code |-> 200, text |-> JsonText(PyList(<<>>))], [status_code |-> 404, text |-> EmptyText]}

NextFetchMessages ==
    \/ Ready /\ messages_get_all
    \/ Ready /\ \E id \in IdArgs : messages_get_by_id(id)
    \/ Ready /\ \E id \in IdArgs : messages_get_by_agent(id)
    \/ Deliver(MessageResponses, NetworkFaults)
    \/ Resume

SpecFetchMessages == Init /\ [][NextFetchMessages]_vars

----------------------------------------------------------------------------
(* Messages sent the way test_complete_sdk_flow sends them: every required  *)
(* argument given and non-blank, agent_version left out or given.           *)

GivenStrings == {PyStr(<<"alice">>)}
AgentVersions == {PyNone, PyStr(<<"1.0">>)}
CompleteHumanMessageArgs == [username : GivenStrings, message : GivenStrings, agent_name : GivenStrings, agent_platform : GivenStrings, agent_version : AgentVersions, user_email : GivenStrings]
CompleteBotMessageArgs == [username : GivenStrings, message : GivenStrings, agent_name : GivenStrings, agent_platform : GivenStrings, reply_message_id : {PyUUID(<<"uuid-1">>)}, rag_context : GivenStrings, agent_version : AgentVersions, user_email : GivenStrings]

NextSubmitMessage ==
    \/ Ready /\ \E a \in CompleteHumanMessageArgs : messages_send_human_message(a)
    \/ Ready /\ \E a \in CompleteBotMessageArgs : messages_send_bot_message(a)
    \/ NetworkReply
    \/ Resume

SpecSubmitMessage == Init /\ [][NextSubmitMessage]_vars

----------------------------------------------------------------------------
(* The owner of the client: it leaves an `async with` block, or it lets go  *)
(* of a client it built by a plain constructor call.                        *)

\* ShiftaiagenticinfraClient.__aexit__ / HttpClient.__aexit__: await self.close().
\* Python runs it when the block ends, by its last statement or by an exception.
__aexit__ ==
    /\ ~torn
    /\ call.phase \in {"idle", "done"}
    /\ closed' = TRUE
    /\ torn' = TRUE
    /\ UNCHANGED <<base_url, api_key, netCalls, call, suspended, probe>>

\* client = ShiftaiagenticinfraClient(...) outside any `async with`, used and
\* then no longer referenced: no finalizer exists, nothing runs.
Discard ==
    /\ ~torn
    /\ call.phase \in {"idle", "done"}
    /\ torn' = TRUE
    /\ UNCHANGED <<base_url, api_key, closed, netCalls, call, suspended, probe>>

NextLifecycle ==
    \/ ~torn /\ Next
    \/ __aexit__
    \/ Discard

SpecLifecycle == Init /\ [][NextLifecycle]_vars

----------------------------------------------------------------------------
(* Properties *)

ObjectOps == {"get", "post", "post_without_auth"}
ListOps == {"get_list", "post_list"}
MapOps == {"get_map_without_auth", "post_map_without_auth", "post_map"}
AuthenticatedOps == {"get", "get_list", "post", "post_list", "post_map"}

Done == call.phase = "done"
\* The invocation entered a transport operation (a facade may end before).
InTransport == call.op # ""
Returned == call.outcome = "return"
Raised == call.outcome = "raise"
GotResponse == call.reply.kind = "response"
GotSuccess == GotResponse /\ 200 <= call.reply.status_code /\ call.reply.status_code <= 299
\* The success response's body is a JSON document.
GotDocument == GotSuccess /\ call.reply.text.raw = "json"
Document == call.reply.text.doc

\* v is an instance of cls built from the object doc: every declared field is
\* there, with the coerced value of its key or None, and nothing else.
IsProjection(v, doc, cls) ==
    /\ v.t = cls.name
    /\ Len(v.kids) = Len(cls.fields)
    /\ \A i \in 1..Len(cls.fields) :
          /\ v.kids[i].k = cls.fields[i]
          /\ v.kids[i].v = (IF HasKey(doc, cls.fields[i]) THEN _deserialize_datetime(Lookup(doc, cls.fields[i])) ELSE PyNone)

\* s occurs in the message m
Contains(m, s) == \E i \in 0..(Len(m) - Len(s)) : SubSeq(m, i + 1, i + Len(s)) = s

IsIoError(e) == e.kind = "ApiException" /\ e.status_code = 0 /\ e.message # <<>> /\ e.message[1] = "IO error: "

\* C1: every invocation of a transport operation ends by returning a value of
\* the operation's declared result shape (an instance of the target type, a
\* list, a map) or by raising one Typed Failure.
C1_ShapeOrTypedFailure ==
    (Done /\ InTransport) =>
        \/ /\ Returned
           /\ \/ call.op \in ObjectOps /\ call.value.t = call.response_type.name
              \/ call.op \in ListOps /\ call.value.t = "list"
              \/ call.op \in MapOps /\ call.value.t = "dict"
        \/ Raised /\ IsApiException(call.exc)

\* C2: a response with a status outside 200-299 raises the failure kind of
\* its status (401, 400, 404, 5xx, any other), with that status, and no
\* value is returned.
C2_StatusClassification ==
    (Done /\ GotResponse /\ ~GotSuccess) =>
        /\ Raised
        /\ call.value = PyNone
        /\ call.exc.status_code = call.reply.status_code
        /\ call.exc.kind = (CASE call.reply.status_code = 401 -> "UnauthorizedException"
                              [] call.reply.status_code = 400 -> "BadRequestException"
                              [] call.reply.status_code = 404 -> "NotFoundException"
                              [] call.reply.status_code >= 500 /\ call.reply.status_code < 600 -> "ServerException"
                              [] OTHER -> "ApiException")

C2_Witness == Done /\ GotResponse /\ call.reply.status_code = 503 /\ Raised /\ call.exc.kind = "ServerException" /\ call.exc.status_code = 503

AuthenticatedFacadeMethods ==
    {"users.create", "agents.create",
     "messages.send_human_message", "messages.send_bot_message", "messages.submit", "messages.get_all", "messages.get_by_id", "messages.get_by_agent",
     "analytics.submit_feedback", "analytics.get_message_feedback", "analytics.get_dashboard", "analytics.get_top_agents", "analytics.get_top_users", "analytics.get_user_analytics", "analytics.get_project_data",
     "conversations.get_messages_by_conversation_id", "conversations.get_all_conversations", "conversations.get_user_conversations",
     "platform_session.initiate_session", "platform_session.end_conversation",
     "eval.generate_metrics_for_session", "eval.generate_metrics_for_all_sessions"}

\* C3: with no credential configured (None or ''), a call of an authenticated
\* facade method ends at once with ValueError, whatever its arguments, and
\* the count of network requests is the one before the call.
C3_FacadeNeedsCredential ==
    [][(call'.via \in AuthenticatedFacadeMethods /\ call.phase = "idle" /\ ~Truthy(api_key)) =>
          /\ call'.phase = "done"
          /\ call'.outcome = "raise"
          /\ call'.exc.kind = "ValueError"
          /\ call'.exc.message = <<"This operation requires an API key.">>
          /\ call'.request = NoRequest
          /\ netCalls' = netCalls]_vars

C3_Witness == Done /\ call.via = "messages.send_bot_message" /\ api_key = PyNone /\ call.exc.kind = "ValueError" /\ netCalls = 0

\* C4: an authenticated transport operation called directly on a transport
\* with no credential fails at once with the precondition failure (ValueError)
\* and puts no request on the network.
C4_TransportNeedsCredential ==
    (call.via = "HttpClient" /\ call.op \in AuthenticatedOps /\ ~Truthy(api_key)) =>
        /\ Done
        /\ Raised
        /\ call.exc.kind = "ValueError"
        /\ call.request = NoRequest

\* C5: get and get_list with a target that declares its fields: a success
\* payload object (or each object of a payload list) yields the target built
\* from its declared keys only, the undeclared keys dropped and the missing
\* fields None, without any failure.
C5_ReadsDropUnknownKeys ==
    (Done /\ GotDocument /\ call.response_type.dataclass) =>
        /\ (call.op = "get" /\ Document.t = "dict") =>
              Returned /\ IsProjection(call.value, Document, call.response_type)
        /\ (call.op = "get_list" /\ Document.t = "list") =>
              /\ Returned
              /\ call.value.t = "list"
              /\ Len(call.value.kids) = Len(Document.kids)
              /\ \A i \in 1..Len(Document.kids) :
                    Document.kids[i].v.t = "dict" => IsProjection(call.value.kids[i].v, Document.kids[i].v, call.response_type)

C5_Witness ==
    /\ Done /\ GotDocument /\ call.op = "get" /\ call.response_type = PlatformMessageSubmissionResponse
    /\ Document.t = "dict" /\ HasKey(Document, "extra") /\ HasKey(Document, "message")
    /\ Returned /\ call.value.t = "PlatformMessageSubmissionResponse"

\* C6: post, post_list and post_without_auth with a dataclass target: a
\* success payload object (or list of objects) is deserialized and returned
\* even when it has a key the target does not declare.
C6_WritesDropUnknownKeys ==
    (Done /\ GotDocument /\ call.response_type.dataclass) =>
        /\ (call.op \in {"post", "post_without_auth"} /\ Document.t = "dict") => Returned
        /\ (call.op = "post_list" /\ Document.t = "list") => Returned

\* C7: get_list and post_list on a success payload that is no array raise a
\* plain ApiException with status 0 and return nothing.
C7_ListShapeMismatch ==
    (Done /\ GotDocument /\ call.op \in ListOps /\ Document.t # "list") =>
        /\ Raised
        /\ call.value = PyNone
        /\ call.exc.kind = "ApiException"
        /\ call.exc.status_code = 0

C7_Witness ==
    /\ Done /\ GotDocument /\ call.op = "post_list" /\ Document.t = "dict"
    /\ Raised /\ call.exc = ApiException(0, <<"Expected list, got ", "<class '", "dict", "'>">>, NoText)

\* C8: a Typed Failure raised inside a transport operation reaches the caller
\* unchanged (kind, status_code, message, response_body) and is not wrapped
\* as an 'IO error' failure.
C8_TypedFailureUnchanged ==
    (Done /\ InTransport /\ IsApiException(call.raised)) =>
        /\ Raised
        /\ call.exc = call.raised
        /\ ~IsIoError(call.exc)

C8_Witness ==
    /\ Done /\ GotResponse /\ call.reply.status_code = 404
    /\ call.raised = NotFoundException(<<"Not Found">>, call.reply.text)
    /\ call.exc = call.raised

\* C9: whatever fails inside a transport operation, what escapes it is one of
\* the five Typed Failure kinds.
C9_OnlyTypedFailuresEscape ==
    (Done /\ InTransport /\ Raised) => IsApiException(call.exc)

\* C10: a network fault, or a success response whose body is no JSON (an
\* empty body too), raises a plain ApiException with status 0 whose message
\* contains the description of the fault, and returns nothing.
C10_FaultsBecomeGeneric ==
    (Done /\ InTransport /\ (call.reply.kind = "fault" \/ (GotSuccess /\ ~GotDocument))) =>
        /\ Raised
        /\ call.value = PyNone
        /\ call.exc.kind = "ApiException"
        /\ call.exc.status_code = 0
        /\ call.raised.kind \in {"ConnectError", "ReadTimeout", "JSONDecodeError"}
        /\ call.reply.kind = "fault" => call.raised = call.reply.fault
        /\ call.exc.message # call.raised.message
        /\ Contains(call.exc.message, call.raised.message)

C10_Witness ==
    /\ Done /\ call.reply.kind = "fault" /\ call.reply.fault.kind = "ConnectError"
    /\ call.exc = ApiException(0, <<"IO error: ", "All connection attempts failed">>, NoText)

\* C11: an invocation puts at most one request on the network: the count
\* grows by one exactly when a call reaches its awaited send, never while the
\* reply is handled (no retry after any outcome), and a result is only ever
\* returned out of the call's own awaited request (no cache).
C11_SingleAttempt ==
    [][/\ netCalls' \in {netCalls, netCalls + 1}
       /\ (netCalls' = netCalls + 1) <=> (call.phase = "idle" /\ call'.phase = "awaiting")
       /\ (call.phase = "idle" /\ call'.phase = "awaiting") => call'.request # NoRequest
       /\ (call.phase = "awaiting" /\ call'.phase = "done") => (call'.request = call.request /\ call'.reply # NoReply)
       /\ (call.phase = "idle" /\ call'.phase = "done") => (call'.request = NoRequest /\ call'.reply = NoReply /\ call'.outcome = "raise")
       /\ (call'.phase = "done" /\ call'.outcome = "return") => call.phase = "awaiting"]_vars

\* The second of two calls, each of which sent its own request, ended by a fault.
C11_Witness == Done /\ netCalls = 2 /\ call.reply.kind = "fault" /\ call.request # NoRequest

\* What the invocation c sent and how it ended follow from the transport's
\* base URL and credential, c's own arguments and c's own reply.
OwnOnly(c) ==
    /\ c.request # NoRequest =>
          /\ \E p \in Paths : c.request.url = base_url \o p
          /\ c.request.headers = ClientHeaders \o (IF c.op \in AuthenticatedOps THEN ApiKeyHeader ELSE <<>>)
          /\ c.request.content = SerializeBody(c.request_body).json_body
    /\ (c.phase = "done" /\ c.reply.kind = "response") =>
          LET final == ExceptClauses(OnResponse(c, [status_code |-> c.reply.status_code, text |-> c.reply.text]))
          IN  c.value = final.value /\ c.exc = final.raised
    /\ (c.phase = "done" /\ c.reply.kind = "fault") =>
          c.value = PyNone /\ c.exc = ExceptClauses(Raise(c.reply.fault)).raised

\* C12: base_url and api_key never change after construction, whatever the
\* two tasks do and in whatever order (failed and abandoned calls too); a step
\* of the running task leaves the parked task's invocation as it was; and each
\* invocation's request and outcome follow from its own arguments and reply.
C12_ConfigFixedCallsIndependent ==
    /\ [](OwnOnly(call) /\ OwnOnly(suspended))
    /\ [][/\ base_url' = base_url
          /\ api_key' = api_key
          /\ suspended' = suspended \/ (suspended' = call /\ call' = suspended)]_vars

\* The task that sent second got its reply first, the other is still parked.
C12_Witness ==
    /\ call.phase = "done" /\ call.op = "get" /\ call.reply.kind = "response"
    /\ suspended.phase = "awaiting" /\ suspended.op = "post" /\ suspended.request.content # NoText
    /\ netCalls = 2

\* C13: once the owner has let go of the client, after calls that returned or
\* raised, the connection pool is closed.
C13_PoolReleasedOnTeardown == torn => closed

Sent == call.request # NoRequest
HeaderNames(request) == {request.headers[i].k : i \in 1..Len(request.headers)}

\* C14: every request sent carries Content-Type: application/json; it carries
\* the Api-Key header, with the configured credential, exactly when the
\* operation is get, get_list, post, post_list or post_map; the request of
\* an unauthenticated operation is made of the base URL, the path and the
\* body alone, so the credential occurs nowhere in it.
C14_CredentialOnlyWhereAuthenticated ==
    Sent =>
        /\ \E i \in 1..Len(call.request.headers) :
              call.request.headers[i] = Entry("str", "Content-Type", PyStr(<<"application/json">>))
        /\ ("Api-Key" \in HeaderNames(call.request)) <=> (call.op \in AuthenticatedOps)
        /\ (call.op \in AuthenticatedOps) =>
              \E i \in 1..Len(call.request.headers) : call.request.headers[i] = Entry("str", "Api-Key", api_key)
        /\ (call.op \notin AuthenticatedOps) =>
              /\ call.request.headers = ClientHeaders
              /\ call.request.content = SerializeBody(call.request_body).json_body
              /\ Len(call.request.url) > Len(base_url)
              /\ SubSeq(call.request.url, 1, Len(base_url)) = base_url
              /\ \A i \in 1..Len(call.request.url) : PyStr(<<call.request.url[i]>>) # api_key

C14_Witness ==
    /\ Sent /\ call.via = "platform.register" /\ call.op = "post_without_auth"
    /\ api_key = PyStr(<<"pk_test">>)
    /\ call.request.headers = <<Entry("str", "Content-Type", PyStr(<<"application/json">>))>>

\* The sequence s without its last element if that is a '/'.
StripOne(s) == IF s # <<>> /\ s[Len(s)] = "/" THEN SubSeq(s, 1, Len(s) - 1) ELSE s

\* C15: the URL of every request is the base_url argument of the constructor
\* with exactly one trailing '/' removed (none if there is none, only the last
\* of several), followed by the path.
C15_UrlStripsOneSeparator ==
    (probe.of = "HttpClient.__init__" /\ Sent) =>
        \E p \in Paths : call.request.url = StripOne(probe.base_url) \o p

\* An ISO-8601 timestamp: a date, a date and a time, or both and 'Z' or an offset.
TimestampShaped(s) ==
    /\ Len(s) \in 1..3
    /\ s[1] \in DateTokens
    /\ Len(s) >= 2 => s[2] \in TimeTokens
    /\ Len(s) = 3 => s[3] \in OffsetTokens \cup {"Z"}

\* The datetime a timestamp denotes, 'Z' being the offset +00:00.
Denoted(s) ==
    <<s[1],
      IF Len(s) >= 2 /\ s[2] \in TimeTokens THEN s[2] ELSE "T00:00:00",
      IF s[Len(s)] = "Z" THEN "+00:00" ELSE IF s[Len(s)] \in OffsetTokens THEN s[Len(s)] ELSE "naive">>

\* A date with 'Z' or an offset and no time: a timestamp or not, by the reading.
DateWithOffset(s) == Len(s) = 2 /\ s[1] \in DateTokens /\ s[2] \in OffsetTokens \cup {"Z"}

\* out is the payload in with its timestamps, and nothing else, made datetimes.
RECURSIVE Coerced(_, _)
Coerced(out, in) ==
    IF in.t = "str"
    THEN IF TimestampShaped(in.s) THEN out = PyDatetime(Denoted(in.s))
         ELSE IF DateWithOffset(in.s) THEN out = in \/ out = PyDatetime(Denoted(in.s))
         ELSE out = in
    ELSE IF in.t \in {"dict", "list"}
    THEN /\ out.t = in.t
         /\ Len(out.kids) = Len(in.kids)
         /\ \A i \in 1..Len(in.kids) :
               /\ out.kids[i].kt = in.kids[i].kt
               /\ out.kids[i].k = in.kids[i].k
               /\ Coerced(out.kids[i].v, in.kids[i].v)
    ELSE out = in

\* C16: the coercion of a parsed payload turns every timestamp-shaped string,
\* at any depth of objects and arrays, into the datetime it denotes ('Z' as
\* offset +00:00), leaves every other string and every non-string leaf as it
\* is, keeps keys, lengths and order, and applied again changes nothing.
C16_CoercionOfTimestamps ==
    (Done /\ GotDocument) =>
        /\ Coerced(_deserialize_datetime(Document), Document)
        /\ _deserialize_datetime(_deserialize_datetime(Document)) = _deserialize_datetime(Document)

\* The invocation came through a facade method.
ViaFacade == call.via \notin {"", "HttpClient"}

\* The facade methods whose path holds a required identifier or string.
ArgumentInPath == {"messages.get_by_id", "messages.get_by_agent", "analytics.get_message_feedback", "eval.generate_metrics_for_session", "eval.get_batch_progress"}

PathLiterals ==
    {"/api/platform/messages/", "/api/platform/messages/agent/", "/api/analytics/messages/", "/feedback",
     "/api/eval/sessions/", "/generate-metrics", "/api/eval/sessions/generate-metrics-all/", "/progress"}

\* What the facade put into the path of the request sent.
PathArguments(c) == SelectSeq(SubSeq(c.request.url, Len(base_url) + 1, Len(c.request.url)), LAMBDA t : t \notin PathLiterals)

\* The required top-level fields of the body a facade method sends.
RequiredBodyFields(via) ==
    CASE via = "platform.register" -> {"projectName"}
      [] via = "users.create" -> {"username", "email"}
      [] via = "agents.create" -> {"name", "platform"}
      [] via \in {"messages.send_human_message", "messages.send_bot_message"} -> {"username", "email", "message"}
      [] via = "analytics.submit_feedback" -> {"messageId", "feedback"}
      [] via \in {"conversations.get_messages_by_conversation_id", "platform_session.end_conversation"} -> {"conversationId"}
      [] via = "conversations.get_user_conversations" -> {"username"}
      [] OTHER -> {}

\* v is a string with something in it besides whitespace.
Present(v) == v.t = "str" /\ Strip(v.s) # <<>>

\* C17: a facade method puts a request on the network only with its required
\* strings non-blank and its required identifiers given; when it ends without
\* reaching the transport it raised ValueError and sent nothing; when it
\* reaches the transport its outcome is the outcome of that one operation.
C17_FacadeValidatesThenDelegates ==
    ViaFacade =>
        /\ Sent =>
              /\ call.via \in ArgumentInPath =>
                    Len(PathArguments(call)) = 1 /\ PathArguments(call)[1] \notin {"None", " "}
              /\ \A f \in RequiredBodyFields(call.via) :
                    HasKey(call.request.content.doc, f) /\ Present(Lookup(call.request.content.doc, f))
        /\ (Done /\ ~InTransport) => (call.exc.kind = "ValueError" /\ ~Sent)
        /\ (Done /\ InTransport /\ GotResponse) =>
              LET final == ExceptClauses(OnResponse(call, [status_code |-> call.reply.status_code, text |-> call.reply.text]))
              IN  call.value = final.value /\ call.exc = final.raised

\* C18: with a credential configured and every required argument non-blank,
\* send_human_message and send_bot_message reach the transport whether or not
\* agent_version is given: the call sends one POST to
\* /api/platform/messages/submit and does not end in a precondition failure.
C18_AgentVersionOptional ==
    (call.via \in {"messages.send_human_message", "messages.send_bot_message"} /\ Truthy(api_key)) =>
        /\ Sent
        /\ call.request.verb = "POST"
        /\ call.request.url = base_url \o <<"/api/platform/messages/submit">>
        /\ call.exc.kind # "ValueError"

\* C19: a success response carrying {success: true, messageId: <uuid>,
\* conversationId: <uuid>}, deserialized as PlatformMessageSubmissionResponse,
\* yields an instance with success true, messageId and conversationId as UUID
\* values equal to the ones sent (not plain strings), and every other field
\* unset.
C19_RoundTripTypedIdentifiers ==
    (Done /\ GotDocument /\ Document = SubmissionPayload /\ call.op \in {"get", "post", "post_without_auth"}
          /\ call.response_type = PlatformMessageSubmissionResponse) =>
        /\ Returned
        /\ call.value.t = "PlatformMessageSubmissionResponse"
        /\ \A i \in 1..Len(call.value.kids) :
              LET f == call.value.kids[i] IN
              CASE f.k = "success" -> f.v = PyTrue
                [] f.k = "messageId" -> f.v = PyUUID(MessageIdText)
                [] f.k = "conversationId" -> f.v = PyUUID(ConversationIdText)
                [] OTHER -> f.v = PyNone

\* part occurs in text as a run of consecutive pieces.
Includes(text, part) == \E i \in 0..(Len(text) - Len(part)) : SubSeq(text, i + 1, i + Len(part)) = part
\* e is the ValueError of ServerException.__init__, or wraps its message.
RangeFailure(e) == e.message # <<>> /\ Includes(e.message, <<"ServerException requires 5xx status code, got ">>)

\* C20: ServerException(status_code, ...) raises ValueError when status_code
\* is outside [500, 600); inside the range it succeeds, keeps the status code
\* and its str() includes the status code and the message. The transport
\* builds it only for a reply in that range, so no transport operation raises
\* or passes on that ValueError.
C20_ServerExceptionRange ==
    /\ probe.of = "ServerException" =>
          IF 500 <= probe.status_code /\ probe.status_code < 600
          THEN /\ probe.result.kind = "ServerException"
               /\ probe.result.status_code = probe.status_code
               /\ Includes(probe.text, <<ToString(probe.status_code)>>)
               /\ Includes(probe.text, probe.message)
          ELSE /\ probe.result.kind = "ValueError"
               /\ RangeFailure(probe.result)
    /\ call.phase = "done" =>
          /\ ~RangeFailure(call.raised)
          /\ ~RangeFailure(call.exc)
          /\ call.exc.kind = "ServerException" <=> (GotResponse /\ 500 <= call.reply.status_code /\ call.reply.status_code < 600)

C20_Witness ==
    /\ probe.of = "ServerException" /\ probe.status_code = 503 /\ probe.message = <<"Gateway down">>
    /\ probe.result = Exc("ServerException", 503, <<"Gateway down">>, HtmlText)
    /\ probe.text = <<"API error ", "503", ": ", "Gateway down", "\nResponse: ", "<html>">>
    /\ Done /\ GotResponse /\ call.reply.status_code = 600
    /\ call.exc = ApiException(600, <<"API request failed with status ", "600">>, call.reply.text)

\* The response body is there to show: response.text is neither None nor ''.
BodyPresent(e) == e.response_body.raw \notin {"None", ""}

\* C21: a failure raised for a non-success status is a Typed Failure carrying
\* the status and the raw body text of that response; its str() includes the
\* status code and the message, and ends with the raw body whenever the body
\* is present.
C21_FailureKeepsBody ==
    /\ (Done /\ GotResponse /\ ~IsSuccess(call.reply.status_code)) =>
          /\ Raised
          /\ IsApiException(call.exc)
          /\ call.exc.status_code = call.reply.status_code
          /\ call.exc.response_body = call.reply.text
    /\ (probe.of = "str" /\ IsApiException(probe.result) /\ probe.result.status_code # 0) =>
          /\ Includes(probe.text, <<ToString(probe.result.status_code)>>)
          /\ Includes(probe.text, probe.result.message)
          /\ BodyPresent(probe.result) =>
                Includes(probe.text, <<"\nResponse: ", probe.result.response_body.raw>>)
                /\ probe.text[Len(probe.text)] = probe.result.response_body.raw

C21_Witness ==
    /\ probe.of = "str"
    /\ probe.result = NotFoundException(<<"Not Found">>, HtmlText)
    /\ probe.text = <<"API error ", "404", ": ", "Not Found", "\nResponse: ", "<html>">>
    /\ Done /\ GotResponse /\ call.reply.status_code = 503 /\ call.reply.text = EmptyText
    /\ call.exc = ServerException(503, <<"Server Error">>, EmptyText)

\* C22: a raw-map operation returns the parsed success payload without
\* projection or construction, after the datetime coercion: the value is the
\* coerced payload, so a timestamp-shaped string in it is a datetime.
C22_RawMapCoerced ==
    (Done /\ GotDocument /\ call.op \in MapOps) =>
        /\ Returned
        /\ call.value = _deserialize_datetime(Document)

\* The request value a facade method built and handed to the transport.
Built == call.request_body

\* C23: the request value built by send_human_message has senderType HUMAN
\* and messageType TEXT, the one built by send_bot_message senderType BOT and
\* messageType TEXT, whatever the arguments; the body put on the network
\* carries the same two values.
C23_SenderTypeFixed ==
    \A m \in {[via |-> "messages.send_human_message", tag |-> <<"HUMAN">>], [via |-> "messages.send_bot_message", tag |-> <<"BOT">>]} :
        (call.via = m.via /\ Built # PyNone) =>
            /\ Built.t = "PlatformMessageSubmissionRequest"
            /\ Lookup(Built, "senderType") = PyStr(m.tag)
            /\ Lookup(Built, "messageType") = PyStr(<<"TEXT">>)
            /\ Sent => /\ Lookup(call.request.content.doc, "senderType") = PyStr(m.tag)
                       /\ Lookup(call.request.content.doc, "messageType") = PyStr(<<"TEXT">>)

C23_Witness ==
    /\ call.via = "messages.send_bot_message" /\ call.phase = "awaiting"
    /\ Lookup(Built, "senderType") = PyStr(<<"BOT">>)
    /\ Lookup(Built, "username") = PyStr(<<"alice">>)
    /\ Lookup(call.request.content.doc, "senderType") = PyStr(<<"BOT">>)

\* The client in use is the one built with the apiKey that register returned.
SecondClient == probe.of = "ShiftaiagenticinfraClient.__init__"
MissingApiKey == RawExc("ValueError", <<"This operation requires an API key.">>)
\* The request value was built but json.dumps cannot write it: nothing to send.
Unserializable == Built # PyNone /\ SerializeBody(Built).raised # NoExc

\* C24: on a client with no credential, platform.register with a non-blank
\* project_name sends an unauthenticated POST to /api/platform/register (it
\* ends without a request only on 'project_name is required' or on metadata
\* that cannot be written as JSON); on the
\* second client, built with the apiKey of the registration response, a call
\* of an authenticated facade method never ends with the missing-API-key
\* failure: it reaches the network, unless argument validation refused it.
C24_RegisterThenAuthenticated ==
    /\ (~SecondClient /\ call.via = "platform.register") =>
          \/ /\ Sent
             /\ call.request.verb = "POST"
             /\ call.request.url = base_url \o <<"/api/platform/register">>
             /\ "Api-Key" \notin HeaderNames(call.request)
             /\ netCalls >= 1
          \/ /\ Done /\ ~Sent
             /\ call.exc = RawExc("ValueError", <<"project_name is required">>) \/ Unserializable
    /\ SecondClient => Truthy(api_key)
    /\ (SecondClient /\ call.via \in AuthenticatedFacadeMethods) =>
          /\ call.exc # MissingApiKey
          /\ \/ Sent
             \/ Done /\ call.exc.kind = "ValueError"
             \/ Done /\ Unserializable

\* The types json.loads and the datetime coercion produce: no constructed target.
PlainTypes == {"NoneType", "bool", "int", "str", "datetime", "list", "dict"}
RECURSIVE IsPlain(_)
IsPlain(v) == v.t \in PlainTypes /\ \A i \in 1..Len(v.kids) : IsPlain(v.kids[i].v)

C26_ListElementwise ==
    (Done /\ GotDocument /\ call.op \in ListOps /\ Document.t = "list") =>
        /\ Returned
        /\ call.value.t = "list"
        /\ Len(call.value.kids) = Len(Document.kids)
        /\ \A i \in 1..Len(Document.kids) :
              LET item == Document.kids[i].v
                  out == call.value.kids[i].v
              IN  IF item.t # "dict" THEN out = _deserialize_datetime(item)
                  ELSE IF call.response_type.dataclass THEN IsProjection(out, item, call.response_type)
                  ELSE out = _deserialize_datetime(item)

\* The checks of a method after the credential check, in the order of its
\* code: what is required of the argument at that place, and the message.
ValidationOrder(via) ==
    CASE via = "messages.send_human_message" ->
           <<[kind |-> "str", message |-> <<"username is required">>], [kind |-> "str", message |-> <<"message is required">>],
             [kind |-> "str", message |-> <<"agent_name is required">>], [kind |-> "str", message |-> <<"agent_platform is required">>],
             [kind |-> "str", message |-> <<"agent_version is required">>], [kind |-> "str", message |-> <<"user_email is required">>]>>
      [] via = "messages.send_bot_message" ->
           <<[kind |-> "str", message |-> <<"username is required">>], [kind |-> "str", message |-> <<"message is required">>],
             [kind |-> "str", message |-> <<"agent_name is required">>], [kind |-> "str", message |-> <<"agent_platform is required">>],
             [kind |-> "id", message |-> <<"reply_message_id is required for bot messages">>], [kind |-> "str", message |-> <<"rag_context is required for bot messages">>],
             [kind |-> "str", message |-> <<"agent_version is required">>], [kind |-> "str", message |-> <<"user_email is required">>]>>
      [] via = "analytics.submit_feedback" ->
           <<[kind |-> "id", message |-> <<"message_id is required">>], [kind |-> "str", message |-> <<"feedback_title is required">>],
             [kind |-> "str", message |-> <<"feedback is required">>]>>
      [] via = "users.create" -> <<[kind |-> "str", message |-> <<"username is required">>], [kind |-> "str", message |-> <<"email is required">>]>>
      [] via = "conversations.get_messages_by_conversation_id" -> <<[kind |-> "id", message |-> <<"conversation_id is required">>]>>
      [] via = "conversations.get_user_conversations" -> <<[kind |-> "str", message |-> <<"username is required">>]>>
      [] OTHER -> <<>>

\* The argument is None, or a required string that is empty or whitespace.
Blank(v, kind) == v = PyNone \/ (kind = "str" /\ ~Present(v))
BlankPlaces == {i \in 1..Len(probe.args) : Blank(probe.args[i], ValidationOrder(probe.of)[i].kind)}
FirstBlank == CHOOSE i \in BlankPlaces : \A j \in BlankPlaces : i <= j
IsRequiredFailure(e) == e.kind = "ValueError" /\ \E i \in 1..Len(ValidationOrder(probe.of)) : e.message = ValidationOrder(probe.of)[i].message

CredentialChecks == {"HttpClient.ensure_authenticated", "ShiftaiagenticinfraClient._ensure_api_key"}
NoCredential == api_key = PyNone \/ api_key = PyStr(<<>>)

\* C28: the credential check raises the missing-API-key failure for api_key
\* None and for '' alike and returns for every other credential, a
\* whitespace-only one included; it changes nothing of the client; and an
\* authenticated facade call ends with that failure exactly when the
\* credential is None or ''.
C28_EmptyCredentialIsNone ==
    /\ [](/\ probe.of \in CredentialChecks => probe.result = (IF NoCredential THEN MissingApiKey ELSE NoExc)
          /\ (call.via \in AuthenticatedFacadeMethods /\ call.phase # "idle") => (call.exc = MissingApiKey <=> NoCredential))
    /\ [][(probe' # probe /\ probe'.of \in CredentialChecks) =>
              UNCHANGED <<base_url, api_key, closed, netCalls, call, suspended, torn>>]_vars

C28_Witness ==
    /\ api_key = PyStr(<<" ">>)
    /\ probe.of = "HttpClient.ensure_authenticated" /\ probe.result = NoExc
    /\ call.via = "users.create" /\ Done
    /\ call.exc = RawExc("ValueError", <<"username is required">>)

\* C29: after close() has completed, a transport operation on the client
\* puts nothing on the network and ends by raising an ApiException with
\* status 0: it returns no value and raises no other exception type.
C29_ClosedClientFailsGeneric ==
    (closed /\ call.phase # "idle" /\ InTransport) =>
        /\ Done
        /\ ~Sent
        /\ Raised
        /\ call.value = PyNone
        /\ call.exc.kind = "ApiException"
        /\ call.exc.status_code = 0

\* out is the PlatformMessage of the payload object o: when o has senderType
\* and no sender, its sender is that senderType value.
SenderFallback(out, o) ==
    /\ out.t = "PlatformMessage"
    /\ (HasKey(o, "senderType") /\ ~HasKey(o, "sender")) => Lookup(out, "sender") = Lookup(o, "senderType")

\* C30: messages.get_by_id, get_all and get_by_agent on a success payload of
\* message objects return PlatformMessage values, whatever undeclared keys
\* the objects carry, and an object with senderType and no sender yields a
\* PlatformMessage whose sender is the senderType value.
C30_SenderTypeFallback ==
    (Done /\ GotDocument /\ call.via \in {"messages.get_by_id", "messages.get_all", "messages.get_by_agent"}) =>
        /\ (call.op = "get" /\ Document.t = "dict") => Returned /\ SenderFallback(call.value, Document)
        /\ (call.op = "get_list" /\ Document.t = "list") =>
              /\ Returned
              /\ Len(call.value.kids) = Len(Document.kids)
              /\ \A i \in 1..Len(Document.kids) : SenderFallback(call.value.kids[i].v, Document.kids[i].v)

====
